---- MODULE Spec2Model ----
(***************************************************************************)
(* Model of the weather-alert backend's decision logic:                    *)
(*   backend/app/services/risk_calculator.py  (RiskCalculator)             *)
(*   backend/app/services/alert_engine.py     (AlertEngine)                *)
(*                                                                         *)
(* Numbers.  The code computes on Python floats.  The model computes on    *)
(* integers: temperatures in degrees C, precipitation in mm, wind in km/h, *)
(* humidity in percent, visibility in km.  Every risk value is carried as  *)
(* an exact integer multiple of 1/12 (sub-scores) or 1/1200 (the weighted  *)
(* score), so that the divisions by 30, 40 and 20 of the code are exact.   *)
(* Timestamps are whole hours since an epoch; the hour of day of a         *)
(* timestamp is its value modulo 24.                                       *)
(***************************************************************************)
EXTENDS Integers, Sequences, FiniteSets, TLC

VARIABLES
    op,            \* the operation this behaviour runs
    pc,            \* "start" before the operation has run, "done" after
    args,          \* arguments of the operation (of AlertEngine.check_alerts in Spec)
    now,           \* the value datetime.now() yields during the call
    outcome,       \* what the operation did: [exc, ret]
    snapshot,      \* arguments of RiskCalculator.calculate_risk_score
    risk_score,    \* the score returned, in units of 1/1200
    feed,          \* what the USGS feeds serve: the events of each summary feed
    alert_history, \* api/alerts.py: the module's list alert_history
    uuids,         \* the number of alert ids issued so far
    invocations,   \* the check_alerts calls in progress: position and locals of each
    heap,          \* the recommendation lists those calls have allocated
    _cache,        \* cache_service.py: the dict of the one CacheService
    cache_log,     \* the set, invalidate and clear calls made on it, oldest first
    notification_service  \* notification_service.py: the one NotificationService

vars ==
    <<op, pc, args, now, outcome, snapshot, risk_score, feed, alert_history, uuids,
      invocations, heap, _cache, cache_log, notification_service>>

(***************************************************************************)
(* Bounds of the model.                                                    *)
(***************************************************************************)
\* Longest freely chosen run of forecast points in one forecast.
MaxCore == 3

(***************************************************************************)
(* models/alert.py, models/user.py                                         *)
(***************************************************************************)
\* Optional[datetime] = None: an unset start_time / end_time.
None == -1

AlertType == {"HEATWAVE", "HEAVY_RAIN", "STORM", "COLD_WAVE", "HIGH_HUMIDITY"}

Severity == {"LOW", "MODERATE", "HIGH", "SEVERE"}

UserType == {"STUDENT", "FARMER", "TRAVELLER", "DELIVERY_WORKER", "GENERAL"}

\* CustomThresholds(): the documented defaults.
CustomThresholds ==
    [heatwave_temp |-> 35, heavy_rain_amount |-> 50, high_wind_speed |-> 60,
     cold_wave_temp |-> 5, high_humidity |-> 85]

\* Alert(...): the fields the engine sets; acknowledged takes its default.
Alert(type, severity, recommendations, start_time, end_time) ==
    [type |-> type, severity |-> severity, recommendations |-> recommendations,
     start_time |-> start_time, end_time |-> end_time, acknowledged |-> FALSE]

(***************************************************************************)
(* Python built-ins the code uses.                                         *)
(***************************************************************************)
\* min(a, b), max(a, b) on two numbers.
Min2(a, b) == IF a <= b THEN a ELSE b

Max2(a, b) == IF a >= b THEN a ELSE b

\* seq[:n]
Take(seq, n) == SubSeq(seq, 1, Min2(n, Len(seq)))

\* max(...) / min(...) over a non-empty collection of numbers.
MaxOf(S) == CHOOSE m \in S : \A y \in S : m >= y

MinOf(S) == CHOOSE m \in S : \A y \in S : m <= y

RECURSIVE SumPrecipitation(_)
\* sum(item.precipitation for item in seq)
SumPrecipitation(seq) ==
    IF seq = <<>> THEN 0 ELSE Head(seq).precipitation + SumPrecipitation(Tail(seq))

\* datetime.hour
Hour(timestamp) == timestamp % 24

(***************************************************************************)
(* RiskCalculator.  Sub-scores are returned times 12.                      *)
(***************************************************************************)
calculate_temperature_risk(temp) ==
    IF 15 <= temp /\ temp <= 25 THEN 0
    ELSE IF temp > 25 THEN Min2(1200, (temp - 25) * 60)
    ELSE Min2(1200, (15 - temp) * 60)

calculate_precipitation_risk(precip_mm) == Min2(1200, precip_mm * 12)

\* A faulty variant: the middle segment starts again from 0 instead of from 30.
calculate_wind_risk_restarting(wind_speed_kmh) ==
    IF wind_speed_kmh < 30 THEN wind_speed_kmh * 12
    ELSE IF wind_speed_kmh < 60 THEN (wind_speed_kmh - 30) * 16
    ELSE Min2(1200, 840 + (wind_speed_kmh - 60) * 9)

calculate_wind_risk(wind_speed_kmh) ==
    IF wind_speed_kmh < 30 THEN wind_speed_kmh * 12
    ELSE IF wind_speed_kmh < 60 THEN 360 + (wind_speed_kmh - 30) * 16
    ELSE Min2(1200, 840 + (wind_speed_kmh - 60) * 9)

calculate_humidity_risk(humidity, temp) ==
    IF temp < 25 \/ humidity < 60 THEN 0
    ELSE Min2(1200, (humidity - 60) * 30)

calculate_visibility_risk(visibility_km) ==
    IF visibility_km >= 10 THEN 0
    ELSE Min2(1200, (10 - visibility_km) * 120)

\* The weighted combination, times 1200 (weights times 100, sub-scores times 12).
WeightedRisk(temperature, precipitation, wind_speed, humidity, visibility) ==
    calculate_temperature_risk(temperature) * 30
    + calculate_precipitation_risk(precipitation) * 25
    + calculate_wind_risk(wind_speed) * 25
    + calculate_humidity_risk(humidity, temperature) * 10
    + calculate_visibility_risk(visibility) * 10

\* A faulty variant: the weighted sum is taken for a fraction and returned as a
\* percentage instead of being clamped.
calculate_risk_score_percent(temperature, precipitation, wind_speed, humidity, visibility) ==
    WeightedRisk(temperature, precipitation, wind_speed, humidity, visibility) * 100

\* Returns the score times 1200: 0.0 is 0 and 100.0 is 120000.
calculate_risk_score(temperature, precipitation, wind_speed, humidity, visibility) ==
    Min2(120000, Max2(0,
        WeightedRisk(temperature, precipitation, wind_speed, humidity, visibility)))

(***************************************************************************)
(* AlertEngine: the severity gradings.                                     *)
(***************************************************************************)
\* The two labels exchanged: a plausible slip the monotonicity property must catch.
_get_heatwave_severity_swapped(temp) ==
    IF temp > 42 THEN "HIGH" ELSE IF temp > 38 THEN "SEVERE" ELSE "MODERATE"

_get_heatwave_severity(temp) ==
    IF temp > 42 THEN "SEVERE" ELSE IF temp > 38 THEN "HIGH" ELSE "MODERATE"

_get_rain_severity(precipitation) ==
    IF precipitation > 150 THEN "SEVERE"
    ELSE IF precipitation > 100 THEN "HIGH" ELSE "MODERATE"

_get_wind_severity(wind_speed) ==
    IF wind_speed > 100 THEN "SEVERE" ELSE IF wind_speed > 80 THEN "HIGH" ELSE "MODERATE"

_get_cold_severity(temp) ==
    IF temp < -5 THEN "SEVERE" ELSE IF temp < 0 THEN "HIGH" ELSE "MODERATE"

(***************************************************************************)
(* AlertEngine: the recommendation texts.                                  *)
(***************************************************************************)
\* The recommendations=[...] literal of each detector's Alert(...).
BaseRecommendations ==
    [HEATWAVE |-> <<"Avoid outdoor activities during peak hours (12 PM - 4 PM)",
                    "Stay hydrated and drink plenty of water",
                    "Use sunscreen and wear protective clothing",
                    "Check on elderly and vulnerable individuals">>,
     HEAVY_RAIN |-> <<"Carry an umbrella or raincoat",
                      "Allow extra time for commute",
                      "Avoid flood-prone areas",
                      "Check weather updates regularly">>,
     STORM |-> <<"Stay indoors if possible",
                 "Secure loose objects outdoors",
                 "Avoid areas with trees and power lines",
                 "Postpone outdoor activities">>,
     COLD_WAVE |-> <<"Wear warm clothing in layers",
                     "Protect exposed skin",
                     "Check heating systems",
                     "Be aware of frost and ice">>,
     HIGH_HUMIDITY |-> <<"Stay in air-conditioned spaces",
                         "Drink plenty of fluids",
                         "Limit strenuous outdoor activities",
                         "Watch for signs of heat exhaustion">>]

\* The user_recommendations dict of _personalize_alerts.
user_recommendations ==
    [STUDENT |->
        [HEATWAVE |-> <<"Plan indoor study sessions", "Carry water bottle to school">>,
         HEAVY_RAIN |-> <<"Allow extra time for commute",
                          "Keep books and electronics protected">>,
         STORM |-> <<"Stay in school building if weather worsens",
                     "Inform parents about weather">>,
         HIGH_HUMIDITY |-> <<"Stay in air-conditioned classrooms",
                             "Carry extra water to school">>],
     FARMER |->
        [HEATWAVE |-> <<"Work during early morning or late evening",
                        "Ensure worker hydration">>,
         HEAVY_RAIN |-> <<"Protect crops and equipment", "Check drainage systems",
                          "Delay harvesting">>,
         STORM |-> <<"Secure farm equipment", "Protect livestock",
                     "Check barn structures">>,
         COLD_WAVE |-> <<"Protect sensitive crops", "Ensure livestock shelter",
                         "Check irrigation systems">>,
         HIGH_HUMIDITY |-> <<"Monitor crop health for fungal diseases",
                             "Ensure proper ventilation in storage">>],
     TRAVELLER |->
        [HEATWAVE |-> <<"Plan indoor activities", "Carry sufficient water",
                        "Avoid peak sun hours">>,
         HEAVY_RAIN |-> <<"Check road conditions", "Avoid flood-prone routes",
                          "Have alternate plans">>,
         STORM |-> <<"Postpone travel if possible", "Seek shelter",
                     "Avoid coastal areas">>,
         HIGH_HUMIDITY |-> <<"Plan indoor sightseeing",
                             "Stay hydrated during outdoor activities">>],
     DELIVERY_WORKER |->
        [HEATWAVE |-> <<"Schedule deliveries for cooler hours",
                        "Keep vehicle AC functional">>,
         HEAVY_RAIN |-> <<"Use waterproof packaging", "Plan safer routes">>,
         STORM |-> <<"Delay deliveries if unsafe", "Stay in touch with dispatch">>,
         HIGH_HUMIDITY |-> <<"Take frequent breaks in AC",
                             "Keep extra water in vehicle">>],
     GENERAL |->
        [HEATWAVE |-> <<"Stay indoors during peak hours", "Drink plenty of water">>,
         HEAVY_RAIN |-> <<"Carry umbrella", "Avoid unnecessary travel">>,
         STORM |-> <<"Stay indoors", "Secure outdoor items">>,
         COLD_WAVE |-> <<"Wear warm clothing", "Keep heating systems ready">>,
         HIGH_HUMIDITY |-> <<"Use air conditioning if available", "Stay hydrated">>]]

(***************************************************************************)
(* AlertEngine: the five detectors.  A detector returns <<>> for None and  *)
(* <<alert>> for an alert.  _check_heavy_rain can raise: it returns        *)
(* [exc, ret], exc being "" when it returns normally.                      *)
(***************************************************************************)
\* A faulty variant: the daytime restriction is forgotten.
_check_heatwave_any_hour(forecast, threshold) ==
    LET high_temp_hours ==
            SelectSeq(Take(forecast, 24), LAMBDA item : item.temperature > threshold)
    IN  IF Len(high_temp_hours) >= 3
        THEN LET max_temp ==
                     MaxOf({high_temp_hours[i].temperature : i \in DOMAIN high_temp_hours})
             IN  <<Alert("HEATWAVE", _get_heatwave_severity(max_temp),
                         BaseRecommendations["HEATWAVE"],
                         high_temp_hours[1].timestamp,
                         high_temp_hours[Len(high_temp_hours)].timestamp)>>
        ELSE <<>>

_check_heatwave(forecast, threshold) ==
    LET high_temp_hours ==
            SelectSeq(Take(forecast, 24),
                      LAMBDA item : /\ item.temperature > threshold
                                    /\ 10 <= Hour(item.timestamp)
                                    /\ Hour(item.timestamp) <= 18)
    IN  IF Len(high_temp_hours) >= 3
        THEN LET max_temp ==
                     MaxOf({high_temp_hours[i].temperature : i \in DOMAIN high_temp_hours})
             IN  <<Alert("HEATWAVE", _get_heatwave_severity(max_temp),
                         BaseRecommendations["HEATWAVE"],
                         high_temp_hours[1].timestamp,
                         high_temp_hours[Len(high_temp_hours)].timestamp)>>
        ELSE <<>>

\* A faulty variant: the single-point trigger (max_intensity > 10) is forgotten.
_check_heavy_rain_total_only(forecast, threshold) ==
    LET head == Take(forecast, 8)
        total_precipitation == SumPrecipitation(head)
        rainy_periods == SelectSeq(head, LAMBDA item : item.precipitation > 0)
    IN  IF head = <<>>
        THEN [exc |-> "ValueError", ret |-> <<>>]
        ELSE IF total_precipitation > threshold
        THEN [exc |-> "",
              ret |-> <<Alert("HEAVY_RAIN", _get_rain_severity(total_precipitation),
                              BaseRecommendations["HEAVY_RAIN"],
                              IF rainy_periods # <<>>
                              THEN rainy_periods[1].timestamp ELSE None,
                              IF rainy_periods # <<>>
                              THEN rainy_periods[Len(rainy_periods)].timestamp
                              ELSE None)>>]
        ELSE [exc |-> "", ret |-> <<>>]

\* A faulty variant: the window is taken over the whole forecast, not its first 8
\* points.
_check_heavy_rain_any_point(forecast, threshold) ==
    LET head == Take(forecast, 8)
        total_precipitation == SumPrecipitation(head)
    IN  IF head = <<>>
        THEN [exc |-> "ValueError", ret |-> <<>>]
        ELSE LET max_intensity == MaxOf({head[i].precipitation : i \in DOMAIN head})
                 rainy_periods == SelectSeq(forecast, LAMBDA item : item.precipitation > 0)
             IN  IF total_precipitation > threshold \/ max_intensity > 10
                 THEN [exc |-> "",
                       ret |-> <<Alert("HEAVY_RAIN", _get_rain_severity(total_precipitation),
                                       BaseRecommendations["HEAVY_RAIN"],
                                       IF rainy_periods # <<>>
                                       THEN rainy_periods[1].timestamp ELSE None,
                                       IF rainy_periods # <<>>
                                       THEN rainy_periods[Len(rainy_periods)].timestamp
                                       ELSE None)>>]
                 ELSE [exc |-> "", ret |-> <<>>]

_check_heavy_rain(forecast, threshold) ==
    LET head == Take(forecast, 8)
        total_precipitation == SumPrecipitation(head)
    IN  IF head = <<>>
        THEN \* max() of an empty sequence
             [exc |-> "ValueError", ret |-> <<>>]
        ELSE LET max_intensity == MaxOf({head[i].precipitation : i \in DOMAIN head})
                 rainy_periods == SelectSeq(head, LAMBDA item : item.precipitation > 0)
             IN  IF total_precipitation > threshold \/ max_intensity > 10
                 THEN [exc |-> "",
                       ret |-> <<Alert("HEAVY_RAIN", _get_rain_severity(total_precipitation),
                                       BaseRecommendations["HEAVY_RAIN"],
                                       IF rainy_periods # <<>>
                                       THEN rainy_periods[1].timestamp ELSE None,
                                       IF rainy_periods # <<>>
                                       THEN rainy_periods[Len(rainy_periods)].timestamp
                                       ELSE None)>>]
                 ELSE [exc |-> "", ret |-> <<>>]

\* A faulty variant: the current wind reading is not looked at.
_check_storm_forecast_only(forecast, current_wind, threshold, clock) ==
    LET high_wind_periods ==
            SelectSeq([i \in DOMAIN Take(forecast, 8) |-> forecast[i].wind_speed],
                      LAMBDA wind : wind > threshold)
    IN  IF high_wind_periods # <<>>
        THEN LET max_wind == MaxOf({high_wind_periods[i] : i \in DOMAIN high_wind_periods})
             IN  <<Alert("STORM", _get_wind_severity(max_wind),
                         BaseRecommendations["STORM"], clock, None)>>
        ELSE <<>>

\* high_wind_periods holds the wind readings only; the labels paired with them in
\* the code are not read.
_check_storm(forecast, current_wind, threshold, clock) ==
    LET high_wind_periods ==
            (IF current_wind > threshold THEN <<current_wind>> ELSE <<>>)
            \o SelectSeq([i \in DOMAIN Take(forecast, 8) |-> forecast[i].wind_speed],
                         LAMBDA wind : wind > threshold)
    IN  IF high_wind_periods # <<>>
        THEN LET max_wind == MaxOf({high_wind_periods[i] : i \in DOMAIN high_wind_periods})
             IN  <<Alert("STORM", _get_wind_severity(max_wind),
                         BaseRecommendations["STORM"], clock, None)>>
        ELSE <<>>

\* A faulty variant: a point at the threshold counts as cold (<= for <).
_check_cold_wave_inclusive(forecast, threshold) ==
    LET cold_hours ==
            SelectSeq(Take(forecast, 24), LAMBDA item : item.temperature <= threshold)
    IN  IF Len(cold_hours) >= 3
        THEN LET min_temp == MinOf({cold_hours[i].temperature : i \in DOMAIN cold_hours})
             IN  <<Alert("COLD_WAVE", _get_cold_severity(min_temp),
                         BaseRecommendations["COLD_WAVE"],
                         cold_hours[1].timestamp,
                         cold_hours[Len(cold_hours)].timestamp)>>
        ELSE <<>>

\* A faulty variant: the window is that of the scanned points, not of the cold ones.
_check_cold_wave_scanned_window(forecast, threshold) ==
    LET cold_hours ==
            SelectSeq(Take(forecast, 24), LAMBDA item : item.temperature < threshold)
    IN  IF Len(cold_hours) >= 3
        THEN LET min_temp == MinOf({cold_hours[i].temperature : i \in DOMAIN cold_hours})
             IN  <<Alert("COLD_WAVE", _get_cold_severity(min_temp),
                         BaseRecommendations["COLD_WAVE"],
                         forecast[1].timestamp,
                         Take(forecast, 24)[Len(Take(forecast, 24))].timestamp)>>
        ELSE <<>>

_check_cold_wave(forecast, threshold) ==
    LET cold_hours ==
            SelectSeq(Take(forecast, 24), LAMBDA item : item.temperature < threshold)
    IN  IF Len(cold_hours) >= 3
        THEN LET min_temp == MinOf({cold_hours[i].temperature : i \in DOMAIN cold_hours})
             IN  <<Alert("COLD_WAVE", _get_cold_severity(min_temp),
                         BaseRecommendations["COLD_WAVE"],
                         cold_hours[1].timestamp,
                         cold_hours[Len(cold_hours)].timestamp)>>
        ELSE <<>>

\* A faulty variant: the humidity alert is graded by how far the threshold is
\* exceeded, down to a LOW grade for a narrow excess.
_check_high_humidity_graded(temperature, humidity, threshold, clock) ==
    IF humidity > threshold
    THEN <<Alert("HIGH_HUMIDITY",
                 IF humidity > threshold + 10 THEN "HIGH" ELSE "LOW",
                 BaseRecommendations["HIGH_HUMIDITY"], clock, None)>>
    ELSE <<>>

_check_high_humidity(temperature, humidity, threshold, clock) ==
    IF humidity > threshold
    THEN <<Alert("HIGH_HUMIDITY", "MODERATE", BaseRecommendations["HIGH_HUMIDITY"],
                 clock, None)>>
    ELSE <<>>

(***************************************************************************)
(* AlertEngine: personalization and prioritization.                        *)
(***************************************************************************)
\* alert.recommendations.extend(extra)
Extend(alert, extra) ==
    [alert EXCEPT !.recommendations = alert.recommendations \o extra]

\* A faulty variant: the user-specific list is appended twice.
_personalize_alerts_twice(alerts, user_type) ==
    IF user_type \notin UserType
    THEN alerts
    ELSE [i \in DOMAIN alerts |->
            IF /\ user_type \in DOMAIN user_recommendations
               /\ alerts[i].type \in DOMAIN user_recommendations[user_type]
            THEN Extend(Extend(alerts[i], user_recommendations[user_type][alerts[i].type]),
                        user_recommendations[user_type][alerts[i].type])
            ELSE alerts[i]]

\* UserType(user_type) raises ValueError for a string that is no member's value;
\* the except clause then leaves the alerts as they are.
_personalize_alerts(alerts, user_type) ==
    IF user_type \notin UserType
    THEN alerts
    ELSE [i \in DOMAIN alerts |->
            IF /\ user_type \in DOMAIN user_recommendations
               /\ alerts[i].type \in DOMAIN user_recommendations[user_type]
            THEN Extend(alerts[i], user_recommendations[user_type][alerts[i].type])
            ELSE alerts[i]]

\* The severity_order dict of _prioritize_alerts.
severity_order == [SEVERE |-> 4, HIGH |-> 3, MODERATE |-> 2, LOW |-> 1]

\* severity_order.get(a.severity, 0)
SortKey(a) ==
    IF a.severity \in DOMAIN severity_order THEN severity_order[a.severity] ELSE 0

\* The items of a sequence whose key is k, in their order in the sequence.
WithKey(alerts, k) == SelectSeq(alerts, LAMBDA a : SortKey(a) = k)

RECURSIVE SortedDescending(_, _)
\* sorted(alerts, key=SortKey, reverse=True) restricted to the keys <= k: Python's
\* sort is stable, also with reverse=True, so the items of one key keep their order
\* and the keys come out from the largest to the smallest.
SortedDescending(alerts, k) ==
    IF k < 0 THEN <<>> ELSE WithKey(alerts, k) \o SortedDescending(alerts, k - 1)

RECURSIVE SortedAscending(_, _)
\* sorted(alerts, key=SortKey) restricted to the keys >= k.
SortedAscending(alerts, k) ==
    IF k > 4 THEN <<>> ELSE WithKey(alerts, k) \o SortedAscending(alerts, k + 1)

\* seq[::-1]
Reversed(seq) == [i \in DOMAIN seq |-> seq[Len(seq) + 1 - i]]

\* A faulty variant: sorted ascending and then reversed, which turns the order of
\* the alerts of one severity around.
_prioritize_alerts_reversed(alerts) == Reversed(SortedAscending(alerts, 0))

_prioritize_alerts(alerts) == SortedDescending(alerts, 4)

(***************************************************************************)
(* AlertEngine.check_alerts.  Returns [exc, ret]: exc is "" and ret the    *)
(* returned list, or exc names the exception that left the call.           *)
(***************************************************************************)
\* A faulty variant: the cold-wave branch appends the storm alert.
check_alerts_storm_twice(hourly_forecast, current_temp, current_humidity, current_wind, user_type, custom_thresholds, clock) ==
    LET thresholds ==
            IF custom_thresholds # <<>> THEN custom_thresholds[1] ELSE CustomThresholds
        heatwave_alert == _check_heatwave(hourly_forecast, thresholds.heatwave_temp)
        heavy_rain == _check_heavy_rain(hourly_forecast, thresholds.heavy_rain_amount)
        storm_alert ==
            _check_storm(hourly_forecast, current_wind, thresholds.high_wind_speed, clock)
        cold_wave_alert == _check_cold_wave(hourly_forecast, thresholds.cold_wave_temp)
        humidity_alert ==
            _check_high_humidity(current_temp, current_humidity,
                                 thresholds.high_humidity, clock)
        alerts ==
            heatwave_alert \o heavy_rain.ret \o storm_alert
            \o (IF cold_wave_alert # <<>> THEN storm_alert ELSE <<>>)
            \o humidity_alert
    IN  IF heavy_rain.exc # ""
        THEN [exc |-> heavy_rain.exc, ret |-> <<>>]
        ELSE [exc |-> "",
              ret |-> _prioritize_alerts(_personalize_alerts(alerts, user_type))]

\* custom_thresholds is <<>> for None and <<thresholds>> otherwise.
check_alerts(hourly_forecast, current_temp, current_humidity, current_wind, user_type, custom_thresholds, clock) ==
    LET thresholds ==
            IF custom_thresholds # <<>> THEN custom_thresholds[1] ELSE CustomThresholds
        heatwave_alert == _check_heatwave(hourly_forecast, thresholds.heatwave_temp)
        heavy_rain == _check_heavy_rain(hourly_forecast, thresholds.heavy_rain_amount)
        storm_alert ==
            _check_storm(hourly_forecast, current_wind, thresholds.high_wind_speed, clock)
        cold_wave_alert == _check_cold_wave(hourly_forecast, thresholds.cold_wave_temp)
        humidity_alert ==
            _check_high_humidity(current_temp, current_humidity,
                                 thresholds.high_humidity, clock)
        alerts ==
            heatwave_alert \o heavy_rain.ret \o storm_alert \o cold_wave_alert
            \o humidity_alert
    IN  IF heavy_rain.exc # ""
        THEN [exc |-> heavy_rain.exc, ret |-> <<>>]
        ELSE [exc |-> "",
              ret |-> _prioritize_alerts(_personalize_alerts(alerts, user_type))]

(***************************************************************************)
(* The inputs the operations are run on.                                   *)
(***************************************************************************)
\* All sequences over S of length at most n.
SeqsUpTo(S, n) == UNION {[1..k -> S] : k \in 0..n}

\* n copies of v.
Repeat(n, v) == [i \in 1..n |-> v]

\* A HourlyForecast list: point i is stamped first + (i-1)*step hours and carries
\* the i-th temperature, precipitation and wind speed.  The fields of
\* HourlyForecast the engine never reads are left out.
MakeForecast(first, step, temps, precs, winds) ==
    [i \in 1..Len(temps) |->
        [timestamp |-> first + (i - 1) * step, temperature |-> temps[i],
         precipitation |-> precs[i], wind_speed |-> winds[i]]]

\* Temperatures on both sides of the heatwave and cold-wave thresholds.
Temps == {-6, -1, 20, 40, 43}

\* Temperatures on both sides of, and at, every step of the severity gradings.
GradedTemps == {-6, -5, -1, 0, 3, 20, 36, 38, 40, 42, 43}

\* 3-hourly precipitation on both sides of, and at, the single-point trigger.
Precs == {0, 7, 10, 11, 60}

\* Wind speeds on both sides of the storm thresholds and gradings.
Winds == {10, 70, 90, 110}

\* custom_thresholds: None, or thresholds that differ from every default and that
\* some modelled reading equals.
ThresholdChoices ==
    {<<>>,
     <<[heatwave_temp |-> 40, heavy_rain_amount |-> 14, high_wind_speed |-> 90,
        cold_wave_temp |-> -1, high_humidity |-> 90]>>}

\* user_type: the five defined values and strings that are none of them.
UserTypeStrings == UserType \cup {"PILOT", "student"}

\* A run of identical values (absent, or long enough that the freely chosen values
\* after it straddle the end of the scanned prefix of `scan` points) followed by at
\* most MaxCore freely chosen values.
Runs(scan, padValues, values) ==
    {Repeat(pad[1], pad[2]) \o core :
        pad \in {<<0, 0>>} \cup ({scan - MaxCore + 1} \X padValues),
        core \in SeqsUpTo(values, MaxCore)}

\* The arguments of check_alerts.
Args(hourly_forecast, current_temp, current_humidity, current_wind, user_type, custom_thresholds) ==
    [hourly_forecast |-> hourly_forecast, current_temp |-> current_temp,
     current_humidity |-> current_humidity, current_wind |-> current_wind,
     user_type |-> user_type, custom_thresholds |-> custom_thresholds]

\* Forecasts whose temperatures vary; first hour and cadence are chosen so that the
\* points fall inside, outside and on the ends of the 10..18 daytime window.
TemperatureInputs ==
    \E clock \in {<<12, 1>>, <<17, 1>>, <<12, 3>>},
       temps \in Runs(24, {20, 40, -1}, Temps),
       th \in ThresholdChoices :
        /\ args = Args(MakeForecast(clock[1], clock[2], temps,
                                    Repeat(Len(temps), 0), Repeat(Len(temps), 10)),
                       20, 50, 0, "GENERAL", th)
        /\ now = 7

\* A day of 24 hourly points from midnight at 20 degrees, but for the points at
\* hours 11, 13 and 15, which share one temperature, and the point at hour 21.
DayInputs ==
    \E day \in GradedTemps, night \in GradedTemps, th \in ThresholdChoices :
        /\ args = Args(MakeForecast(0, 1,
                                    [i \in 1..24 |-> IF i \in {12, 14, 16} THEN day
                                                     ELSE IF i = 22 THEN night ELSE 20],
                                    Repeat(24, 0), Repeat(24, 10)),
                       20, 50, 0, "GENERAL", th)
        /\ now = 7

\* Forecasts whose precipitation varies.
RainInputs ==
    \E precs \in Runs(8, {0, 7, 25}, Precs), th \in ThresholdChoices :
        /\ args = Args(MakeForecast(12, 3, Repeat(Len(precs), 20), precs,
                                    Repeat(Len(precs), 10)),
                       20, 50, 0, "GENERAL", th)
        /\ now = 7

\* Forecasts whose wind speed varies, with calm and windy current readings.
WindInputs ==
    \E winds \in Runs(8, {10, 70, 110}, Winds), w \in {0, 80, 90, 120},
       th \in ThresholdChoices :
        /\ args = Args(MakeForecast(12, 3, Repeat(Len(winds), 20),
                                    Repeat(Len(winds), 0), winds),
                       20, 50, w, "GENERAL", th)
        /\ now = 7

\* Six daytime points: three at one temperature, three at another, all with the
\* same precipitation and wind, so that every combination of alerts occurs, for
\* every user type.
MixedInputs ==
    \E hot \in {20, 36, 40, 43}, cold \in {20, 3, -1, -6}, prec \in {0, 9, 18, 27},
       wind \in Winds, h \in {50, 90, 100}, u \in UserTypeStrings, th \in ThresholdChoices :
        /\ args = Args(MakeForecast(12, 1, Repeat(3, hot) \o Repeat(3, cold),
                                    Repeat(6, prec), Repeat(6, wind)),
                       30, h, 0, u, th)
        /\ now = 7

\* The empty forecast.
EmptyInputs ==
    \E h \in {50, 90}, w \in {0, 120}, u \in UserTypeStrings, th \in ThresholdChoices :
        /\ args = Args(<<>>, 30, h, w, u, th)
        /\ now \in {7, 9}

\* Dry and nearly dry forecasts under a custom heavy-rain threshold of zero and
\* below: the model of CustomThresholds puts no bound on it.
DryInputs ==
    \E precs \in SeqsUpTo({0, 7}, 2) \ {<<>>}, amount \in {-1, 0} :
        /\ args = Args(MakeForecast(12, 3, Repeat(Len(precs), 20), precs,
                                    Repeat(Len(precs), 10)),
                       20, 50, 0, "GENERAL",
                       <<[CustomThresholds EXCEPT !.heavy_rain_amount = amount]>>)
        /\ now = 7

\* Valid weather snapshots: humidity in 0..100, the other readings >= 0, any
\* temperature.
Snapshots ==
    [temperature : {-40, -5, 0, 14, 15, 20, 25, 26, 35, 45, 60},
     precipitation : {0, 50, 100, 500},
     wind_speed : {0, 29, 30, 45, 59, 60, 100, 300},
     humidity : {0, 59, 60, 80, 100},
     visibility : {0, 5, 10, 50}]

CalmSnapshot ==
    [temperature |-> 20, precipitation |-> 0, wind_speed |-> 0, humidity |-> 50,
     visibility |-> 10]

\* NotificationService(): the attributes __init__ sets, FCM not being available.
NoNotifications == [fcm_enabled |-> FALSE, notification_history |-> <<>>]

\* The API has served no request: the history is empty and no call is in progress.
NoRequests ==
    /\ alert_history = <<>>
    /\ uuids = 0
    /\ invocations = <<>>
    /\ heap = <<>>
    /\ _cache = <<>>
    /\ cache_log = <<>>
    /\ notification_service = NoNotifications

\* The USGS feeds when they serve no event at all.
NoEvents == [USGS_4_5_DAY |-> <<>>, USGS_ALL_DAY |-> <<>>]

(***************************************************************************)
(* The state machine: one call of one operation per behaviour.             *)
(***************************************************************************)
Init ==
    /\ pc = "start"
    /\ NoRequests
    /\ outcome = [exc |-> "", ret |-> <<>>]
    /\ risk_score = 0
    /\ feed = NoEvents
    /\ \/ /\ op = "check_alerts"
          /\ \/ TemperatureInputs
             \/ DayInputs
             \/ RainInputs
             \/ WindInputs
             \/ MixedInputs
             \/ EmptyInputs
             \/ DryInputs
          /\ snapshot = CalmSnapshot
       \/ /\ op = "calculate_risk_score"
          /\ snapshot \in Snapshots
          /\ args = Args(<<>>, 20, 50, 0, "GENERAL", <<>>)
          /\ now = 7

\* AlertEngine.check_alerts(...)
CheckAlerts ==
    /\ pc = "start"
    /\ op = "check_alerts"
    /\ outcome' = check_alerts(args.hourly_forecast, args.current_temp,
                               args.current_humidity, args.current_wind,
                               args.user_type, args.custom_thresholds, now)
    /\ pc' = "done"
    /\ UNCHANGED <<op, args, now, snapshot, risk_score, feed>>
    /\ UNCHANGED <<alert_history, uuids, invocations, heap, _cache, cache_log, notification_service>>

\* RiskCalculator.calculate_risk_score(...)
CalculateRiskScore ==
    /\ pc = "start"
    /\ op = "calculate_risk_score"
    /\ risk_score' = calculate_risk_score(snapshot.temperature, snapshot.precipitation,
                                          snapshot.wind_speed, snapshot.humidity,
                                          snapshot.visibility)
    /\ pc' = "done"
    /\ UNCHANGED <<op, args, now, outcome, snapshot, feed>>
    /\ UNCHANGED <<alert_history, uuids, invocations, heap, _cache, cache_log, notification_service>>

Next == CheckAlerts \/ CalculateRiskScore

Spec == Init /\ [][Next]_vars

(***************************************************************************)
(* Vocabulary of the properties.                                           *)
(***************************************************************************)
\* check_alerts has run.
Called == op = "check_alerts" /\ pc = "done"

\* check_alerts has run and returned a list.
Returned == Called /\ outcome.exc = ""

\* The thresholds in force for the call.
InForce ==
    IF args.custom_thresholds = <<>> THEN CustomThresholds ELSE args.custom_thresholds[1]

\* The returned alerts of one type, in their order in the returned list.
ReturnedOfType(t) == SelectSeq(outcome.ret, LAMBDA a : a.type = t)

\* The returned list holds exactly the alert a detector produced (if any) for type
\* t, with the detector's severity and time window.
ReturnsDetected(t, detected) ==
    /\ Len(ReturnedOfType(t)) = Len(detected)
    /\ detected # <<>> =>
          /\ ReturnedOfType(t)[1].severity = detected[1].severity
          /\ ReturnedOfType(t)[1].start_time = detected[1].start_time
          /\ ReturnedOfType(t)[1].end_time = detected[1].end_time

\* The indices of the first n forecast points.
FirstPoints(n) == {i \in DOMAIN args.hourly_forecast : i <= n}

RankOf(severity) ==
    CASE severity = "SEVERE" -> 4 [] severity = "HIGH" -> 3
      [] severity = "MODERATE" -> 2 [] severity = "LOW" -> 1

\* The order in which check_alerts evaluates the detectors.
DetectorOrder ==
    [HEATWAVE |-> 1, HEAVY_RAIN |-> 2, STORM |-> 3, COLD_WAVE |-> 4, HIGH_HUMIDITY |-> 5]

(***************************************************************************)
(* C1.  For every valid snapshot the risk score calculate_risk_score       *)
(* returns lies in the closed range [0, 100] (0 .. 120000 in units of      *)
(* 1/1200).                                                                *)
(***************************************************************************)
C1_RiskScoreInRange ==
    (op = "calculate_risk_score" /\ pc = "done") =>
        (0 <= risk_score /\ risk_score <= 120000)

\* A snapshot whose every sub-score is saturated has been scored, and one whose
\* score lies strictly inside the range.
C1_Witness ==
    /\ op = "calculate_risk_score" /\ pc = "done"
    /\ snapshot.precipitation = 500 /\ snapshot.wind_speed = 300
    /\ snapshot.temperature = 60 /\ snapshot.humidity = 100 /\ snapshot.visibility = 0
    /\ risk_score = 120000

(***************************************************************************)
(* C2.  check_alerts called with an empty forecast completes without       *)
(* raising; with current_wind = 120, the default wind threshold 60 and     *)
(* humidity below its threshold it returns exactly one alert, a STORM      *)
(* alert of severity SEVERE.                                               *)
(***************************************************************************)
C2_EmptyForecastStorm ==
    (/\ Called
     /\ args.hourly_forecast = <<>>
     /\ args.current_wind = 120
     /\ InForce.high_wind_speed = 60
     /\ args.current_humidity <= InForce.high_humidity)
    => /\ outcome.exc = ""
       /\ Len(outcome.ret) = 1
       /\ outcome.ret[1].type = "STORM"
       /\ outcome.ret[1].severity = "SEVERE"

(***************************************************************************)
(* C3.  The list check_alerts returns is ordered by non-increasing         *)
(* severity rank, and two alerts of equal severity appear in detector      *)
(* evaluation order (heatwave, heavy rain, storm, cold wave, humidity).    *)
(***************************************************************************)
C3_PrioritizedOrder ==
    Returned =>
        \A i, j \in DOMAIN outcome.ret :
            i < j =>
                \/ RankOf(outcome.ret[i].severity) > RankOf(outcome.ret[j].severity)
                \/ /\ RankOf(outcome.ret[i].severity) = RankOf(outcome.ret[j].severity)
                   /\ DetectorOrder[outcome.ret[i].type] < DetectorOrder[outcome.ret[j].type]

\* Five alerts were returned; the one detected last but one comes first, and the
\* list holds a tie as well as a drop in severity.
C3_Witness ==
    /\ Returned
    /\ Len(outcome.ret) = 5
    /\ outcome.ret[1].type = "COLD_WAVE"
    /\ outcome.ret[1].severity = "SEVERE"
    /\ outcome.ret[2].severity = "HIGH"
    /\ outcome.ret[3].severity = "HIGH"
    /\ outcome.ret[5].severity = "MODERATE"

(***************************************************************************)
(* C4.  The heatwave detector produces an alert if and only if at least 3  *)
(* of the first 24 forecast points have temperature > threshold and hour   *)
(* of day in [10, 18]; its severity is SEVERE if the maximum temperature   *)
(* over those points is > 42, HIGH if it is > 38, otherwise MODERATE; and  *)
(* that alert is the one HEATWAVE alert of the returned list.              *)
(***************************************************************************)
\* The forecast points the heatwave rule counts.
HeatwavePoints ==
    {i \in FirstPoints(24) :
        /\ args.hourly_forecast[i].temperature > InForce.heatwave_temp
        /\ args.hourly_forecast[i].timestamp % 24 \in 10..18}

HottestCounted == MaxOf({args.hourly_forecast[i].temperature : i \in HeatwavePoints})

C4_HeatwaveRule ==
    op = "check_alerts" =>
        LET detected == _check_heatwave(args.hourly_forecast, InForce.heatwave_temp)
        IN  /\ detected # <<>> <=> Cardinality(HeatwavePoints) >= 3
            /\ detected # <<>> =>
                  /\ Len(detected) = 1
                  /\ detected[1].type = "HEATWAVE"
                  /\ detected[1].severity =
                        (IF HottestCounted > 42 THEN "SEVERE"
                         ELSE IF HottestCounted > 38 THEN "HIGH" ELSE "MODERATE")
            /\ Returned => ReturnsDetected("HEATWAVE", detected)

\* The documented example: a 24-point forecast whose points at hours 11, 13 and 15
\* are at 40 degrees, threshold 35, next to a hotter point outside the daytime
\* window: exactly one alert, HEATWAVE, HIGH, spanning the three points.
C4_Witness ==
    /\ Returned
    /\ InForce.heatwave_temp = 35
    /\ Len(args.hourly_forecast) = 24
    /\ HeatwavePoints = {12, 14, 16}
    /\ \A i \in HeatwavePoints : args.hourly_forecast[i].temperature = 40
    /\ \E i \in FirstPoints(24) : args.hourly_forecast[i].temperature = 43
    /\ Len(outcome.ret) = 1
    /\ outcome.ret[1].type = "HEATWAVE"
    /\ outcome.ret[1].severity = "HIGH"
    /\ outcome.ret[1].start_time = args.hourly_forecast[12].timestamp
    /\ outcome.ret[1].end_time = args.hourly_forecast[16].timestamp

(***************************************************************************)
(* C5.  The heavy-rain detector produces an alert if and only if the       *)
(* precipitation summed over the first 8 forecast points is > threshold or *)
(* one of those points has precipitation > 10 mm; the severity depends on  *)
(* the summed total only: SEVERE if > 150, HIGH if > 100, otherwise        *)
(* MODERATE.                                                               *)
(***************************************************************************)
RECURSIVE SumOver(_)
\* The precipitation summed over a set of forecast indices.
SumOver(indices) ==
    IF indices = {} THEN 0
    ELSE LET i == CHOOSE i \in indices : TRUE
         IN  args.hourly_forecast[i].precipitation + SumOver(indices \ {i})

RainTotal == SumOver(FirstPoints(8))

ExceedingWinds ==
    {w \in {args.current_wind}
             \cup {args.hourly_forecast[i].wind_speed : i \in FirstPoints(8)} :
        w > InForce.high_wind_speed}

C6_StormRule ==
    op = "check_alerts" =>
        LET detected ==
                _check_storm(args.hourly_forecast, args.current_wind,
                             InForce.high_wind_speed, now)
        IN  /\ detected # <<>> <=> ExceedingWinds # {}
            /\ detected # <<>> =>
                  /\ Len(detected) = 1
                  /\ detected[1].type = "STORM"
                  /\ detected[1].severity =
                        (IF MaxOf(ExceedingWinds) > 100 THEN "SEVERE"
                         ELSE IF MaxOf(ExceedingWinds) > 80 THEN "HIGH" ELSE "MODERATE")
                  /\ detected[1].start_time # None
                  /\ detected[1].start_time = now
                  /\ detected[1].end_time = None
            /\ Returned => ReturnsDetected("STORM", detected)

\* A storm alert owed to the current wind alone, graded HIGH, while a stronger
\* forecast wind beyond the eighth point is ignored.
C6_Witness ==
    /\ Returned
    /\ args.current_wind = 90
    /\ Len(args.hourly_forecast) > 8
    /\ args.hourly_forecast[9].wind_speed = 110
    /\ \A i \in FirstPoints(8) : args.hourly_forecast[i].wind_speed <= InForce.high_wind_speed
    /\ Len(outcome.ret) = 1
    /\ outcome.ret[1].type = "STORM"
    /\ outcome.ret[1].severity = "HIGH"
    /\ outcome.ret[1].start_time = now
    /\ outcome.ret[1].end_time = None

(***************************************************************************)
(* C7.  The cold-wave detector produces an alert if and only if at least 3 *)
(* of the first 24 forecast points have temperature < threshold, whatever  *)
(* the hour of day; the severity is SEVERE if the minimum temperature over *)
(* those points is < -5, HIGH if it is < 0, otherwise MODERATE.            *)
(***************************************************************************)
ColdPoints ==
    {i \in FirstPoints(24) : args.hourly_forecast[i].temperature < InForce.cold_wave_temp}

ColdestCounted == MinOf({args.hourly_forecast[i].temperature : i \in ColdPoints})

C7_ColdWaveRule ==
    op = "check_alerts" =>
        LET detected == _check_cold_wave(args.hourly_forecast, InForce.cold_wave_temp)
        IN  /\ detected # <<>> <=> Cardinality(ColdPoints) >= 3
            /\ detected # <<>> =>
                  /\ Len(detected) = 1
                  /\ detected[1].type = "COLD_WAVE"
                  /\ detected[1].severity =
                        (IF ColdestCounted < -5 THEN "SEVERE"
                         ELSE IF ColdestCounted < 0 THEN "HIGH" ELSE "MODERATE")
            /\ Returned => ReturnsDetected("COLD_WAVE", detected)

\* Cold points by day and by night, graded HIGH, while a colder point beyond the
\* 24th is ignored.
C7_Witness ==
    /\ Returned
    /\ Cardinality(ColdPoints) >= 3
    /\ \E i \in ColdPoints : args.hourly_forecast[i].timestamp % 24 \notin 10..18
    /\ ColdestCounted = -1
    /\ Len(args.hourly_forecast) > 24
    /\ args.hourly_forecast[25].temperature = -6
    /\ Len(outcome.ret) = 1
    /\ outcome.ret[1].type = "COLD_WAVE"
    /\ outcome.ret[1].severity = "HIGH"

(***************************************************************************)
(* C8.  check_alerts returns at most 5 alerts, and no two returned alerts  *)
(* have the same type.                                                     *)
(***************************************************************************)
C8_OneAlertPerType ==
    Returned =>
        /\ Len(outcome.ret) <= 5
        /\ \A i, j \in DOMAIN outcome.ret :
              outcome.ret[i].type = outcome.ret[j].type => i = j

\* All five detectors fired in one call.
C8_Witness ==
    /\ Returned
    /\ Len(outcome.ret) = 5
    /\ {outcome.ret[i].type : i \in DOMAIN outcome.ret} = AlertType

(***************************************************************************)
(* C9.  For a valid user_type, every returned alert's recommendations are  *)
(* the alert type's base recommendations followed by the list defined for  *)
(* (user_type, alert type), or the base recommendations alone when none is *)
(* defined; the length is base count + personalized count, that is, the    *)
(* personalization is applied once.                                        *)
(***************************************************************************)
\* The list defined for a pair, <<>> when none is.
PersonalFor(user_type, type) ==
    IF type \in DOMAIN user_recommendations[user_type]
    THEN user_recommendations[user_type][type] ELSE <<>>

C9_PersonalizedOnce ==
    (Returned /\ args.user_type \in UserType) =>
        \A i \in DOMAIN outcome.ret :
            LET a == outcome.ret[i]
            IN  /\ a.recommendations =
                      BaseRecommendations[a.type] \o PersonalFor(args.user_type, a.type)
                /\ Len(a.recommendations) =
                      Len(BaseRecommendations[a.type])
                      + Len(PersonalFor(args.user_type, a.type))

\* A student's call returned a cold-wave alert (no list defined: 4 texts) next to
\* a heatwave alert (4 + 2 texts).
C9_Witness ==
    /\ Returned
    /\ args.user_type = "STUDENT"
    /\ \E i, j \in DOMAIN outcome.ret :
          /\ outcome.ret[i].type = "COLD_WAVE"
          /\ Len(outcome.ret[i].recommendations) = 4
          /\ outcome.ret[j].type = "HEATWAVE"
          /\ Len(outcome.ret[j].recommendations) = 6
          /\ outcome.ret[j].recommendations[5] = "Plan indoor study sessions"

(***************************************************************************)
(* C10.  For any user_type string that is none of the five defined values, *)
(* check_alerts does not raise and returns the alerts (types, severities,  *)
(* time windows, order) it returns for a valid user type, each carrying    *)
(* only its base recommendations.                                          *)
(***************************************************************************)
\* What the same call returns for the user type GENERAL.
ForGeneral ==
    check_alerts(args.hourly_forecast, args.current_temp, args.current_humidity,
                 args.current_wind, "GENERAL", args.custom_thresholds, now)

\* The alerts of a list with their recommendations set to the base ones.
WithBaseOnly(alerts) ==
    [i \in DOMAIN alerts |->
        [alerts[i] EXCEPT !.recommendations = BaseRecommendations[alerts[i].type]]]

C10_UnknownUserType ==
    (Called /\ args.user_type \notin UserType) =>
        /\ outcome.exc = ""
        /\ outcome.ret = WithBaseOnly(ForGeneral.ret)

\* The part of C10 the code does keep: when the call returns, an unknown user type
\* changes nothing but the recommendations.
C10_WhenReturned ==
    (Returned /\ args.user_type \notin UserType) =>
        /\ ForGeneral.exc = ""
        /\ outcome.ret = WithBaseOnly(ForGeneral.ret)

(***************************************************************************)
(* The severity gradings on their own: one grading function applied to a   *)
(* pair of magnitudes per behaviour.                                       *)
(***************************************************************************)
GradingOps ==
    {"_get_heatwave_severity", "_get_rain_severity", "_get_wind_severity",
     "_get_cold_severity"}

\* Magnitudes on both sides of, and at, the two thresholds of each grading.
GradedMagnitudes ==
    [_get_heatwave_severity |-> {35, 38, 39, 42, 43, 48},
     _get_rain_severity     |-> {50, 100, 101, 150, 151, 200},
     _get_wind_severity     |-> {60, 80, 81, 100, 101, 130},
     _get_cold_severity     |-> {-10, -6, -5, -1, 0, 5}]

GradingInit ==
    /\ pc = "start"
    /\ NoRequests
    /\ outcome = [exc |-> "", ret |-> <<>>]
    /\ risk_score = 0
    /\ feed = NoEvents
    /\ snapshot = CalmSnapshot
    /\ now = 7
    /\ \E o \in GradingOps :
          \E lower \in GradedMagnitudes[o], higher \in GradedMagnitudes[o] :
              /\ op = o
              /\ args = [lower |-> lower, higher |-> higher]

\* The result of grading both magnitudes of the pair.
Graded(low, high) == [exc |-> "", ret |-> <<low, high>>]

\* AlertEngine._get_heatwave_severity(temp)
GetHeatwaveSeverity ==
    /\ pc = "start"
    /\ op = "_get_heatwave_severity"
    /\ outcome' = Graded(_get_heatwave_severity(args.lower),
                         _get_heatwave_severity(args.higher))
    /\ pc' = "done"
    /\ UNCHANGED <<op, args, now, snapshot, risk_score, feed>>
    /\ UNCHANGED <<alert_history, uuids, invocations, heap, _cache, cache_log, notification_service>>

\* AlertEngine._get_rain_severity(precipitation)
GetRainSeverity ==
    /\ pc = "start"
    /\ op = "_get_rain_severity"
    /\ outcome' = Graded(_get_rain_severity(args.lower), _get_rain_severity(args.higher))
    /\ pc' = "done"
    /\ UNCHANGED <<op, args, now, snapshot, risk_score, feed>>
    /\ UNCHANGED <<alert_history, uuids, invocations, heap, _cache, cache_log, notification_service>>

\* AlertEngine._get_wind_severity(wind_speed)
GetWindSeverity ==
    /\ pc = "start"
    /\ op = "_get_wind_severity"
    /\ outcome' = Graded(_get_wind_severity(args.lower), _get_wind_severity(args.higher))
    /\ pc' = "done"
    /\ UNCHANGED <<op, args, now, snapshot, risk_score, feed>>
    /\ UNCHANGED <<alert_history, uuids, invocations, heap, _cache, cache_log, notification_service>>

\* AlertEngine._get_cold_severity(temp)
GetColdSeverity ==
    /\ pc = "start"
    /\ op = "_get_cold_severity"
    /\ outcome' = Graded(_get_cold_severity(args.lower), _get_cold_severity(args.higher))
    /\ pc' = "done"
    /\ UNCHANGED <<op, args, now, snapshot, risk_score, feed>>
    /\ UNCHANGED <<alert_history, uuids, invocations, heap, _cache, cache_log, notification_service>>

GradingNext ==
    GetHeatwaveSeverity \/ GetRainSeverity \/ GetWindSeverity \/ GetColdSeverity

GradingSpec == GradingInit /\ [][GradingNext]_vars

\* A grading function has graded both magnitudes of the pair.
GradedPair == op \in GradingOps /\ pc = "done"

(***************************************************************************)
(* C11.  Each weather severity grading is monotonic in its magnitude: of   *)
(* two maximum temperatures, precipitation totals or maximum winds the     *)
(* higher never gets the lower severity, and of two minimum temperatures   *)
(* the lower never gets the lower cold-wave severity.                      *)
(***************************************************************************)
C11_GradingMonotonic ==
    (GradedPair /\ args.lower <= args.higher) =>
        IF op = "_get_cold_severity"
        THEN RankOf(outcome.ret[1]) >= RankOf(outcome.ret[2])
        ELSE RankOf(outcome.ret[1]) <= RankOf(outcome.ret[2])

\* 39 degrees graded HIGH and 43 degrees graded SEVERE.
C11_Witness ==
    /\ GradedPair
    /\ op = "_get_heatwave_severity"
    /\ args = [lower |-> 39, higher |-> 43]
    /\ outcome.ret = <<"HIGH", "SEVERE">>

(***************************************************************************)
(* backend/app/services/earthquake_monitor.py  (EarthquakeMonitor)         *)
(* backend/app/services/tsunami_monitor.py     (TsunamiMonitor)            *)
(*                                                                         *)
(* Numbers.  Magnitudes are carried in tenths (7.2 is 72).  A distance the *)
(* code computes is carried in hundredths of a kilometre; the distance_km  *)
(* of an alert, which the code rounds to one decimal, is carried in tenths *)
(* of a kilometre.  Event times are whole hours on the clock of `now`.     *)
(* Every point lies on the equator, its longitude given as the arc from    *)
(* the prime meridian in hundredths of a kilometre (east positive).        *)
(***************************************************************************)
\* A number of kilometres, in the unit of a computed distance.
Km(n) == n * 100

\* EarthquakeMonitor.__init__: self.min_magnitude (4.0) and self.max_age_hours.
self_min_magnitude == 40

self_max_age_hours == 24

\* r of calculate_distance, in km.
EarthRadius == 6371

\* Half the equator, pi * r (pi taken as 355/113).
HalfTurn == (355 * Km(EarthRadius)) \div 113

Abs(x) == IF x < 0 THEN 0 - x ELSE x

\* str.lower() on the event types of the feed.
Lower(type) ==
    CASE type = "Earthquake" -> "earthquake"
      [] OTHER -> type

\* Python's round(x, 1) of a distance: to the nearest tenth of a km, a tie going to
\* the even tenth.
Round1(distance) ==
    LET q == distance \div 10
        r == distance % 10
    IN  IF r < 5 THEN q
        ELSE IF r > 5 THEN q + 1
        ELSE IF q % 2 = 0 THEN q ELSE q + 1

\* Python truthiness of an Optional number: None and 0 are false.
Truthy(x) == x # None /\ x # 0

_is_relevant_earthquake(earthquake, clock) ==
    IF ~Truthy(earthquake.magnitude) \/ earthquake.magnitude < self_min_magnitude
    THEN FALSE
    ELSE IF Truthy(earthquake.time) /\ clock - earthquake.time > self_max_age_hours
    THEN FALSE
    ELSE Lower(earthquake.type) = "earthquake"

\* fetch_earthquakes: min_magnitude only selects the feed that is read; the events
\* of the feed are kept or dropped by _is_relevant_earthquake.
fetch_earthquakes(usgs, min_magnitude, clock) ==
    LET url == IF min_magnitude >= 45 THEN "USGS_4_5_DAY" ELSE "USGS_ALL_DAY"
    IN  SelectSeq(usgs[url], LAMBDA earthquake : _is_relevant_earthquake(earthquake, clock))

\* The haversine distance of two points of the equator: the shorter arc between
\* their longitudes.
calculate_distance(lat1, lon1, lat2, lon2) ==
    LET dlon == Abs(lon2 - lon1)
    IN  IF dlon <= HalfTurn THEN dlon ELSE 2 * HalfTurn - dlon

\* A faulty variant: the radius of the largest class a digit short.
get_impact_radius_mistyped(magnitude) ==
    IF magnitude >= 80 THEN Km(100)
    ELSE IF magnitude >= 70 THEN Km(500)
    ELSE IF magnitude >= 60 THEN Km(200)
    ELSE IF magnitude >= 50 THEN Km(100)
    ELSE Km(50)

get_impact_radius(magnitude) ==
    IF magnitude >= 80 THEN Km(1000)
    ELSE IF magnitude >= 70 THEN Km(500)
    ELSE IF magnitude >= 60 THEN Km(200)
    ELSE IF magnitude >= 50 THEN Km(100)
    ELSE Km(50)

\* The impact-radius branch answering "info", as the comment above it announces.
get_severity_without_radius(magnitude, distance_km) ==
    IF magnitude >= 70 /\ distance_km < Km(100) THEN "critical"
    ELSE IF magnitude >= 60 /\ distance_km < Km(50) THEN "critical"
    ELSE IF magnitude >= 65 /\ distance_km < Km(200) THEN "warning"
    ELSE IF magnitude >= 55 /\ distance_km < Km(100) THEN "warning"
    ELSE "info"

get_severity(magnitude, distance_km) ==
    LET impact_radius == get_impact_radius(magnitude)
    IN  IF magnitude >= 70 /\ distance_km < Km(100) THEN "critical"
        ELSE IF magnitude >= 60 /\ distance_km < Km(50) THEN "critical"
        ELSE IF magnitude >= 65 /\ distance_km < Km(200) THEN "warning"
        ELSE IF magnitude >= 55 /\ distance_km < Km(100) THEN "warning"
        ELSE IF distance_km < impact_radius THEN "warning"
        ELSE "info"

\* generate_user_message: the advice chosen from the 5 x 3 matrix, by the row of
\* the user type (GENERAL's for any other string) and the column of the severity.
generate_user_message(magnitude, distance_km, user_type, severity) ==
    [magnitude |-> magnitude,
     advice |-> <<IF user_type \in UserType THEN user_type ELSE "GENERAL", severity>>]

\* The alert get_earthquakes_near_location creates for one event.
EarthquakeAlert(eq, distance, user_type) ==
    LET severity == get_severity(eq.magnitude, distance)
    IN  [id |-> <<"eq", eq.id>>,
         type |-> "earthquake",
         severity |-> severity,
         user_message |-> generate_user_message(eq.magnitude, distance, user_type, severity),
         distance_km |-> Round1(distance),
         metadata |-> [magnitude |-> eq.magnitude, tsunami_potential |-> eq.tsunami # 0],
         user_type |-> user_type]

\* The sort of the tsunami list carried over: farthest first.
RECURSIVE SortedByDistanceFarthestFirst(_)

SortedByDistanceFarthestFirst(alerts) ==
    IF alerts = <<>> THEN <<>>
    ELSE LET rest == SortedByDistanceFarthestFirst(SubSeq(alerts, 1, Len(alerts) - 1))
             last == alerts[Len(alerts)]
             k == Cardinality({i \in DOMAIN rest : rest[i].distance_km >= last.distance_km})
         IN  SubSeq(rest, 1, k) \o <<last>> \o SubSeq(rest, k + 1, Len(rest))

\* list.sort(key=lambda x: x["distance_km"]): stable, ascending.
RECURSIVE SortedByDistance(_)

SortedByDistance(alerts) ==
    IF alerts = <<>> THEN <<>>
    ELSE LET rest == SortedByDistance(SubSeq(alerts, 1, Len(alerts) - 1))
             last == alerts[Len(alerts)]
             k == Cardinality({i \in DOMAIN rest : rest[i].distance_km <= last.distance_km})
         IN  SubSeq(rest, 1, k) \o <<last>> \o SubSeq(rest, k + 1, Len(rest))

\* The impact radius left out of the range test: only max_distance_km counts.
get_earthquakes_near_location_in_range(usgs, user_lat, user_lon, user_type, max_distance_km, clock) ==
    LET earthquakes == fetch_earthquakes(usgs, 45, clock)
        Distance(eq) == calculate_distance(user_lat, user_lon, eq.latitude, eq.longitude)
        near == SelectSeq(earthquakes, LAMBDA eq : Distance(eq) <= max_distance_km)
        relevant_alerts == [i \in DOMAIN near |->
                               EarthquakeAlert(near[i], Distance(near[i]), user_type)]
    IN  [exc |-> "", ret |-> SortedByDistance(relevant_alerts)]

get_earthquakes_near_location(usgs, user_lat, user_lon, user_type, max_distance_km, clock) ==
    LET earthquakes == fetch_earthquakes(usgs, 45, clock)
        Distance(eq) == calculate_distance(user_lat, user_lon, eq.latitude, eq.longitude)
        near == SelectSeq(earthquakes,
                    LAMBDA eq : Distance(eq) <= Max2(get_impact_radius(eq.magnitude),
                                                     max_distance_km))
        relevant_alerts == [i \in DOMAIN near |->
                               EarthquakeAlert(near[i], Distance(near[i]), user_type)]
    IN  [exc |-> "", ret |-> SortedByDistance(relevant_alerts)]

\* fetch_tsunami_warnings: the events of the feed read with min_magnitude = 6.0
\* whose tsunami flag is 1.
fetch_tsunami_warnings(usgs, clock) ==
    LET earthquakes == fetch_earthquakes(usgs, 60, clock)
        flagged == SelectSeq(earthquakes, LAMBDA eq : eq.tsunami = 1)
    IN  [i \in DOMAIN flagged |->
            [id |-> <<"tsunami", flagged[i].id>>,
             trigger_earthquake_id |-> flagged[i].id,
             magnitude |-> flagged[i].magnitude,
             latitude |-> flagged[i].latitude,
             longitude |-> flagged[i].longitude,
             event_time |-> flagged[i].time,
             tsunami_potential |-> TRUE]]

is_coastal_location(lat, lon) == TRUE

\* The coastal flag ignored: every location graded as a coastal one.
calculate_tsunami_severity_any_coast(magnitude, distance_km, is_coastal) ==
    IF magnitude >= 80 /\ distance_km < Km(500) THEN "critical"
    ELSE IF magnitude >= 75 /\ distance_km < Km(300) THEN "critical"
    ELSE IF magnitude >= 70 /\ distance_km < Km(800) THEN "warning"
    ELSE IF magnitude >= 65 /\ distance_km < Km(500) THEN "warning"
    ELSE "info"

calculate_tsunami_severity(magnitude, distance_km, is_coastal) ==
    IF ~is_coastal THEN "info"
    ELSE IF magnitude >= 80 /\ distance_km < Km(500) THEN "critical"
    ELSE IF magnitude >= 75 /\ distance_km < Km(300) THEN "critical"
    ELSE IF magnitude >= 70 /\ distance_km < Km(800) THEN "warning"
    ELSE IF magnitude >= 65 /\ distance_km < Km(500) THEN "warning"
    ELSE "info"

\* generate_tsunami_message: the base sentence carries the arrival estimate when
\* the estimate it is given is truthy, and the distance otherwise; then the action
\* of the severity and the advice of the user type.
generate_tsunami_message(magnitude, distance_km, user_type, severity, estimated_arrival_minutes) ==
    [magnitude |-> magnitude,
     estimated_arrival_minutes |->
         IF Truthy(estimated_arrival_minutes) THEN estimated_arrival_minutes ELSE None,
     action |-> severity,
     advice |-> IF user_type \in UserType THEN user_type ELSE "GENERAL"]

tsunami_speed_kmh == 800

\* The alert get_tsunami_alerts_near_location creates for one candidate event.
TsunamiAlert(event, distance, user_lat, user_lon, user_type) ==
    LET is_coastal == is_coastal_location(user_lat, user_lon)
        severity == calculate_tsunami_severity(event.magnitude, distance, is_coastal)
        \* int((distance / tsunami_speed_kmh) * 60)
        estimated_arrival_minutes == (distance * 60) \div Km(tsunami_speed_kmh)
        shown == IF distance < Km(500) THEN estimated_arrival_minutes ELSE None
    IN  [id |-> event.id,
         type |-> "tsunami",
         severity |-> severity,
         user_message |-> generate_tsunami_message(event.magnitude, distance, user_type,
                                                   severity, shown),
         distance_km |-> Round1(distance),
         metadata |-> [trigger_magnitude |-> event.magnitude,
                       estimated_arrival_minutes |-> shown,
                       is_coastal_area |-> is_coastal],
         user_type |-> user_type]

tsunami_severity_order == [critical |-> 3, warning |-> 2, info |-> 1]

\* The key of the tsunami sort precedes, equals or follows another.
KeyAtLeast(a, b) ==
    \/ tsunami_severity_order[a.severity] > tsunami_severity_order[b.severity]
    \/ /\ tsunami_severity_order[a.severity] = tsunami_severity_order[b.severity]
       /\ a.distance_km >= b.distance_km

\* Most severe first, but the closest first within one severity.
RECURSIVE SortedBySeverityThenNearest(_)

SortedBySeverityThenNearest(alerts) ==
    IF alerts = <<>> THEN <<>>
    ELSE LET rest == SortedBySeverityThenNearest(SubSeq(alerts, 1, Len(alerts) - 1))
             last == alerts[Len(alerts)]
             Before(a) ==
                 \/ tsunami_severity_order[a.severity] > tsunami_severity_order[last.severity]
                 \/ /\ tsunami_severity_order[a.severity] = tsunami_severity_order[last.severity]
                    /\ a.distance_km <= last.distance_km
             k == Cardinality({i \in DOMAIN rest : Before(rest[i])})
         IN  SubSeq(rest, 1, k) \o <<last>> \o SubSeq(rest, k + 1, Len(rest))

\* alerts.sort(key=lambda x: (severity_order..., x["distance_km"]), reverse=True):
\* stable, descending.
RECURSIVE SortedBySeverity(_)

SortedBySeverity(alerts) ==
    IF alerts = <<>> THEN <<>>
    ELSE LET rest == SortedBySeverity(SubSeq(alerts, 1, Len(alerts) - 1))
             last == alerts[Len(alerts)]
             k == Cardinality({i \in DOMAIN rest : KeyAtLeast(rest[i], last)})
         IN  SubSeq(rest, 1, k) \o <<last>> \o SubSeq(rest, k + 1, Len(rest))

get_tsunami_alerts_near_location(usgs, user_lat, user_lon, user_type, max_distance_km, clock) ==
    LET tsunami_events == fetch_tsunami_warnings(usgs, clock)
        Distance(event) ==
            calculate_distance(user_lat, user_lon, event.latitude, event.longitude)
        near == SelectSeq(tsunami_events, LAMBDA event : Distance(event) <= max_distance_km)
        alerts == [i \in DOMAIN near |->
                      TsunamiAlert(near[i], Distance(near[i]), user_lat, user_lon, user_type)]
    IN  [exc |-> "", ret |-> SortedBySeverity(alerts)]

(***************************************************************************)
(* Inputs of the seismic operations.                                       *)
(***************************************************************************)
\* Most events one feed serves in the freely composed lists.
MaxEvents == 3

\* Magnitudes below, at and above every threshold of the classifiers.
Magnitudes == {45, 49, 50, 55, 59, 60, 64, 65, 69, 70, 72, 74, 75, 79, 80, 85}

\* Distances below, at and above every threshold of the classifiers.
Distances ==
    {1000, 1334, 4996, 5000, 8000, 9999, 10000, 15000, 19996, 20000, 29999, 30000,
     40000, 49996, 50000, 79999, 80000, 99996, 100000, 100004, 120000}

\* The user at the prime meridian, or 300 km short of the antimeridian.
UserLongitudes == {0, HalfTurn - Km(300)}

\* max_distance_km: the default and two narrower ranges.
MaxDistances == {Km(1000), Km(100), Km(30)}

\* The longitude reached from lon by an arc to the east (negative: to the west).
EastOf(lon, arc) ==
    LET l == lon + arc
    IN  IF l > HalfTurn THEN l - 2 * HalfTurn
        ELSE IF l <= 0 - HalfTurn THEN l + 2 * HalfTurn ELSE l

\* One event of a feed, as fetch_earthquakes parses it.
Event(magnitude, longitude, tsunami, type, time) ==
    [id |-> 0, magnitude |-> magnitude, time |-> time, longitude |-> longitude,
     latitude |-> 0, tsunami |-> tsunami, type |-> type]

\* The two summary feeds of one day: all_day serves every event, 4.5_day those of
\* magnitude 4.5 and above.  An event's id is its place in all_day.
Feeds(events) ==
    LET all == [i \in DOMAIN events |-> [events[i] EXCEPT !.id = i]]
    IN  [USGS_4_5_DAY |-> SelectSeq(all, LAMBDA e : e.magnitude >= 45),
         USGS_ALL_DAY |-> all]

LocationArgs(user_lon, user_type, max_distance_km) ==
    [user_lat |-> 0, user_lon |-> user_lon, user_type |-> user_type,
     max_distance_km |-> max_distance_km]

LocationOps == {"get_earthquakes_near_location", "get_tsunami_alerts_near_location"}

\* One recent earthquake, of any magnitude at any distance east of the user.
SingleEventInputs ==
    \E magnitude \in Magnitudes, arc \in Distances, tsunami \in {0, 1} :
        \E user_lon \in UserLongitudes, max_distance_km \in MaxDistances :
            /\ feed = Feeds(<<Event(magnitude, EastOf(user_lon, arc), tsunami,
                                    "earthquake", now - 2)>>)
            /\ args = LocationArgs(user_lon, "GENERAL", max_distance_km)

\* One event that _is_relevant_earthquake may drop: weak or of unknown magnitude,
\* old, or no earthquake.
FilteredEventInputs ==
    \E magnitude \in {None, 39, 40, 44, 45, 62}, arc \in {Km(10), Km(700)} :
        \E tsunami \in {0, 1}, type \in {"earthquake", "Earthquake", "explosion"} :
            \E age \in {2, 24, 25}, user_type \in {"GENERAL", "FARMER", "PILOT"} :
                /\ feed = Feeds(<<Event(magnitude, EastOf(0, arc), tsunami, type,
                                        now - age)>>)
                /\ args = LocationArgs(0, user_type, Km(1000))

\* A feed read by fetch_earthquakes alone: one event that the filter may drop, weak,
\* old, undated (time 0) or no earthquake, ahead of one it keeps.
FetchInputs ==
    \E magnitude \in {None, 0, 39, 40, 44, 45, 62}, min_magnitude \in {10, 45, 60} :
        \E type \in {"earthquake", "Earthquake", "explosion"} :
            \E time \in {now - 2, now - 24, now - 25, 0}, tsunami \in {0, 1} :
                /\ feed = Feeds(<<Event(magnitude, Km(10), tsunami, type, time),
                                  Event(62, Km(700), 0, "earthquake", now - 2)>>)
                /\ args = [min_magnitude |-> min_magnitude]

\* The events the freely composed lists are made of: [magnitude, arc, tsunami].
ListedEvents ==
    {<<80, 40000, 1>>, <<75, 20000, 1>>, <<65, 4996, 1>>, <<65, -5000, 1>>,
     <<50, 1000, 1>>, <<70, -90000, 1>>, <<62, 15000, 0>>}

\* Up to MaxEvents recent earthquakes, east and west of the user, in any order.
SeveralEventsInputs ==
    \E listed \in SeqsUpTo(ListedEvents, MaxEvents) :
        \E max_distance_km \in {Km(1000), Km(100)} :
            /\ feed = Feeds([i \in DOMAIN listed |->
                                Event(listed[i][1], EastOf(0, listed[i][2]), listed[i][3],
                                      "earthquake", now - 2)])
            /\ args = LocationArgs(0, "STUDENT", max_distance_km)

(***************************************************************************)
(* The seismic state machine: one call of one operation per behaviour.     *)
(***************************************************************************)
SeismicInit ==
    /\ pc = "start"
    /\ NoRequests
    /\ outcome = [exc |-> "", ret |-> <<>>]
    /\ risk_score = 0
    /\ snapshot = CalmSnapshot
    /\ now = 100
    /\ \/ /\ op \in LocationOps
          /\ \/ SingleEventInputs
             \/ FilteredEventInputs
             \/ SeveralEventsInputs
       \/ /\ op = "fetch_earthquakes"
          /\ FetchInputs
       \/ /\ op = "get_severity"
          /\ feed = NoEvents
          /\ \E magnitude \in Magnitudes, distance_km \in Distances :
                args = [magnitude |-> magnitude, distance_km |-> distance_km]
       \/ /\ op = "calculate_tsunami_severity"
          /\ feed = NoEvents
          /\ \E magnitude \in Magnitudes, distance_km \in Distances, is_coastal \in BOOLEAN :
                args = [magnitude |-> magnitude, distance_km |-> distance_km,
                        is_coastal |-> is_coastal]

\* EarthquakeMonitor.get_severity(magnitude, distance_km)
GetSeverity ==
    /\ pc = "start"
    /\ op = "get_severity"
    /\ outcome' = [exc |-> "", ret |-> get_severity(args.magnitude, args.distance_km)]
    /\ pc' = "done"
    /\ UNCHANGED <<op, args, now, snapshot, risk_score, feed>>
    /\ UNCHANGED <<alert_history, uuids, invocations, heap, _cache, cache_log, notification_service>>

\* TsunamiMonitor.calculate_tsunami_severity(magnitude, distance_km, is_coastal)
CalculateTsunamiSeverity ==
    /\ pc = "start"
    /\ op = "calculate_tsunami_severity"
    /\ outcome' = [exc |-> "",
                   ret |-> calculate_tsunami_severity(args.magnitude, args.distance_km,
                                                      args.is_coastal)]
    /\ pc' = "done"
    /\ UNCHANGED <<op, args, now, snapshot, risk_score, feed>>
    /\ UNCHANGED <<alert_history, uuids, invocations, heap, _cache, cache_log, notification_service>>

\* EarthquakeMonitor.fetch_earthquakes(min_magnitude)
FetchEarthquakes ==
    /\ pc = "start"
    /\ op = "fetch_earthquakes"
    /\ outcome' = [exc |-> "", ret |-> fetch_earthquakes(feed, args.min_magnitude, now)]
    /\ pc' = "done"
    /\ UNCHANGED <<op, args, now, snapshot, risk_score, feed>>
    /\ UNCHANGED <<alert_history, uuids, invocations, heap, _cache, cache_log, notification_service>>

\* EarthquakeMonitor.get_earthquakes_near_location(...)
GetEarthquakesNearLocation ==
    /\ pc = "start"
    /\ op = "get_earthquakes_near_location"
    /\ outcome' = get_earthquakes_near_location(feed, args.user_lat, args.user_lon,
                                                args.user_type, args.max_distance_km, now)
    /\ pc' = "done"
    /\ UNCHANGED <<op, args, now, snapshot, risk_score, feed>>
    /\ UNCHANGED <<alert_history, uuids, invocations, heap, _cache, cache_log, notification_service>>

\* TsunamiMonitor.get_tsunami_alerts_near_location(...)
GetTsunamiAlertsNearLocation ==
    /\ pc = "start"
    /\ op = "get_tsunami_alerts_near_location"
    /\ outcome' = get_tsunami_alerts_near_location(feed, args.user_lat, args.user_lon,
                                                   args.user_type, args.max_distance_km,
                                                   now)
    /\ pc' = "done"
    /\ UNCHANGED <<op, args, now, snapshot, risk_score, feed>>
    /\ UNCHANGED <<alert_history, uuids, invocations, heap, _cache, cache_log, notification_service>>

SeismicNext ==
    \/ FetchEarthquakes
    \/ GetSeverity
    \/ CalculateTsunamiSeverity
    \/ GetEarthquakesNearLocation
    \/ GetTsunamiAlertsNearLocation

SeismicSpec == SeismicInit /\ [][SeismicNext]_vars

(***************************************************************************)
(* Vocabulary of the seismic properties.                                   *)
(***************************************************************************)
\* get_earthquakes_near_location has run.
EarthquakesReturned == op = "get_earthquakes_near_location" /\ pc = "done"

\* get_tsunami_alerts_near_location has run.
TsunamisReturned == op = "get_tsunami_alerts_near_location" /\ pc = "done"

\* The events fetch_earthquakes hands to get_earthquakes_near_location.
Fetched == fetch_earthquakes(feed, 45, now)

\* The great-circle distance from the user to an event.
DistanceTo(event) ==
    calculate_distance(args.user_lat, args.user_lon, event.latitude, event.longitude)

\* The returned alerts with a given id.
AlertsWithId(id) == {j \in DOMAIN outcome.ret : outcome.ret[j].id = id}

\* The impact radius as the specification tabulates it.
TabulatedRadius(magnitude) ==
    CASE magnitude >= 80 -> Km(1000)
      [] magnitude >= 70 /\ magnitude < 80 -> Km(500)
      [] magnitude >= 60 /\ magnitude < 70 -> Km(200)
      [] magnitude >= 50 /\ magnitude < 60 -> Km(100)
      [] OTHER -> Km(50)

StatedEarthquakeSeverity(magnitude, distance) ==
    IF \/ magnitude >= 70 /\ distance < Km(100)
       \/ magnitude >= 60 /\ distance < Km(50)
    THEN "critical"
    ELSE IF \/ magnitude >= 65 /\ distance < Km(200)
            \/ magnitude >= 55 /\ distance < Km(100)
            \/ distance < TabulatedRadius(magnitude)
    THEN "warning"
    ELSE "info"

\* The fetched event an earthquake alert was created for.
EventOf(alert) == CHOOSE e \in {Fetched[i] : i \in DOMAIN Fetched} : alert.id = <<"eq", e.id>>

C13_WitnessWarning ==
    /\ EarthquakesReturned
    /\ Len(outcome.ret) = 1
    /\ outcome.ret[1].metadata.magnitude = 72
    /\ outcome.ret[1].distance_km = 1500
    /\ outcome.ret[1].severity = "warning"

\* The events of the feed the tsunami path reads.
TsunamiFeed == {feed.USGS_4_5_DAY[i] : i \in DOMAIN feed.USGS_4_5_DAY}

\* The earthquake of the feed a tsunami event or alert with this id was derived from.
TriggersOf(id) == {e \in TsunamiFeed : id = <<"tsunami", e.id>>}

(***************************************************************************)
(* C14.  Every tsunami candidate event, and therefore every tsunami alert  *)
(* get_tsunami_alerts_near_location returns, comes from an earthquake with *)
(* tsunami flag = 1 and magnitude >= 6.0.                                  *)
(***************************************************************************)
C14_TsunamiFromStrongFlagged ==
    TsunamisReturned =>
        /\ \A i \in DOMAIN fetch_tsunami_warnings(feed, now) :
              \E e \in TriggersOf(fetch_tsunami_warnings(feed, now)[i].id) :
                  e.tsunami = 1 /\ e.magnitude >= 60
        /\ \A j \in DOMAIN outcome.ret :
              \E e \in TriggersOf(outcome.ret[j].id) : e.tsunami = 1 /\ e.magnitude >= 60

\* What the code does keep of C14: every tsunami alert comes from a relevant
\* earthquake (magnitude >= 4.0) whose tsunami flag is 1.
C14_TsunamiFromFlagged ==
    TsunamisReturned =>
        \A j \in DOMAIN outcome.ret :
            \E e \in TriggersOf(outcome.ret[j].id) :
                e.tsunami = 1 /\ e.magnitude >= self_min_magnitude

\* A tsunami alert derived from an earthquake of magnitude 5.0.
C14_WeakTrigger ==
    /\ TsunamisReturned
    /\ Len(outcome.ret) = 1
    /\ outcome.ret[1].metadata.trigger_magnitude = 50

\* The tsunami severity as the specification states it.
StatedTsunamiSeverity(magnitude, distance, coastal) ==
    IF ~coastal THEN "info"
    ELSE IF \/ magnitude >= 80 /\ distance < Km(500)
            \/ magnitude >= 75 /\ distance < Km(300)
    THEN "critical"
    ELSE IF \/ magnitude >= 70 /\ distance < Km(800)
            \/ magnitude >= 65 /\ distance < Km(500)
    THEN "warning"
    ELSE "info"

\* The earthquake of the feed a tsunami alert was derived from.
TriggerOf(alert) == CHOOSE e \in TsunamiFeed : alert.id = <<"tsunami", e.id>>

(***************************************************************************)
(* C15.  Tsunami severity for a coastal location is "critical" iff         *)
(* (magnitude >= 8.0 and distance < 500) or (magnitude >= 7.5 and          *)
(* distance < 300); otherwise "warning" iff (magnitude >= 7.0 and          *)
(* distance < 800) or (magnitude >= 6.5 and distance < 500); otherwise     *)
(* "info"; for a non-coastal location it is "info" whatever the magnitude  *)
(* and distance.  Every tsunami alert carries the severity of its          *)
(* trigger's magnitude and distance at the coastal flag of the user.       *)
(***************************************************************************)
C15_TsunamiSeverity ==
    /\ (op = "calculate_tsunami_severity" /\ pc = "done") =>
          outcome.ret =
              StatedTsunamiSeverity(args.magnitude, args.distance_km, args.is_coastal)
    /\ TsunamisReturned =>
          \A j \in DOMAIN outcome.ret :
              outcome.ret[j].severity =
                  StatedTsunamiSeverity(TriggerOf(outcome.ret[j]).magnitude,
                                        DistanceTo(TriggerOf(outcome.ret[j])),
                                        outcome.ret[j].metadata.is_coastal_area)

\* Magnitude 8.0 at 400 km: critical on the coast.
C15_Witness ==
    /\ op = "calculate_tsunami_severity"
    /\ pc = "done"
    /\ args = [magnitude |-> 80, distance_km |-> Km(400), is_coastal |-> TRUE]
    /\ outcome.ret = "critical"

\* The same event away from the coast: info.
C15_WitnessInland ==
    /\ op = "calculate_tsunami_severity"
    /\ pc = "done"
    /\ args = [magnitude |-> 80, distance_km |-> Km(400), is_coastal |-> FALSE]
    /\ outcome.ret = "info"

\* round(distance_km / 800 * 60): the nearest whole minute, a tie going to the even
\* minute.
RoundedMinutes(distance) ==
    LET q == (distance * 60) \div Km(tsunami_speed_kmh)
        r == (distance * 60) % Km(tsunami_speed_kmh)
    IN  IF 2 * r < Km(tsunami_speed_kmh) THEN q
        ELSE IF 2 * r > Km(tsunami_speed_kmh) THEN q + 1
        ELSE IF q % 2 = 0 THEN q ELSE q + 1

\* The whole minutes of distance_km / 800 * 60, the fraction dropped.
WholeMinutes(distance) == (distance * 60) \div Km(tsunami_speed_kmh)

(***************************************************************************)
(* C16.  For every tsunami alert with distance < 500 km,                   *)
(* estimated_arrival_minutes equals round(distance_km / 800 * 60) and the  *)
(* user message includes that number of minutes; for every tsunami alert   *)
(* with distance >= 500 km the metadata estimate is unset and the message  *)
(* contains no arrival estimate.                                           *)
(***************************************************************************)
C16_ArrivalEstimate ==
    TsunamisReturned =>
        \A j \in DOMAIN outcome.ret :
            LET alert == outcome.ret[j]
                distance == DistanceTo(TriggerOf(alert))
            IN  IF distance < Km(500)
                THEN /\ alert.metadata.estimated_arrival_minutes = RoundedMinutes(distance)
                     /\ alert.user_message.estimated_arrival_minutes =
                            RoundedMinutes(distance)
                ELSE /\ alert.metadata.estimated_arrival_minutes = None
                     /\ alert.user_message.estimated_arrival_minutes = None

\* What the code does keep of C16: below 500 km the estimate is the whole minutes
\* of distance_km / 800 * 60, and the message carries it unless it is 0; from 500 km
\* on there is no estimate in the metadata or the message.
C16_ArrivalTruncated ==
    TsunamisReturned =>
        \A j \in DOMAIN outcome.ret :
            LET alert == outcome.ret[j]
                distance == DistanceTo(TriggerOf(alert))
            IN  IF distance < Km(500)
                THEN /\ alert.metadata.estimated_arrival_minutes = WholeMinutes(distance)
                     /\ alert.user_message.estimated_arrival_minutes =
                            IF WholeMinutes(distance) = 0 THEN None
                            ELSE WholeMinutes(distance)
                ELSE /\ alert.metadata.estimated_arrival_minutes = None
                     /\ alert.user_message.estimated_arrival_minutes = None

\* A tsunami alert 10 km from the epicentre: the estimate is 0 minutes, not the
\* rounded 1, and the message carries no estimate.
C16_NoEstimateNearby ==
    /\ TsunamisReturned
    /\ Len(outcome.ret) = 1
    /\ outcome.ret[1].distance_km = 100
    /\ outcome.ret[1].metadata.estimated_arrival_minutes = 0
    /\ outcome.ret[1].user_message.estimated_arrival_minutes = None

\* The documented case: magnitude 8.0 at 400 km, 30 minutes, shown in the message.
C16_DocumentedCase ==
    /\ TsunamisReturned
    /\ Len(outcome.ret) = 1
    /\ outcome.ret[1].metadata.trigger_magnitude = 80
    /\ outcome.ret[1].distance_km = 4000
    /\ outcome.ret[1].metadata.estimated_arrival_minutes = 30
    /\ outcome.ret[1].user_message.estimated_arrival_minutes = 30

\* The rank of a seismic severity, as the specification numbers it.
SeismicRank(severity) ==
    CASE severity = "critical" -> 3 [] severity = "warning" -> 2 [] severity = "info" -> 1

(***************************************************************************)
(* C17.  The tsunami alert list is ordered by descending severity rank     *)
(* (critical = 3, warning = 2, info = 1) and, within one severity, by      *)
(* descending distance (farthest first); it contains only events whose     *)
(* distance is at most max_distance_km.                                    *)
(***************************************************************************)
C17_TsunamiOrder ==
    TsunamisReturned =>
        /\ \A j \in 1..(Len(outcome.ret) - 1) :
              \/ SeismicRank(outcome.ret[j].severity) > SeismicRank(outcome.ret[j + 1].severity)
              \/ /\ outcome.ret[j].severity = outcome.ret[j + 1].severity
                 /\ outcome.ret[j].distance_km >= outcome.ret[j + 1].distance_km
        /\ \A j \in DOMAIN outcome.ret :
              DistanceTo(TriggerOf(outcome.ret[j])) <= args.max_distance_km

\* Three flagged events served as warning at 50 km, critical at 200 km, critical at
\* 400 km come back as critical 400 km, critical 200 km, warning 50 km.
C17_Witness ==
    /\ TsunamisReturned
    /\ Len(feed.USGS_4_5_DAY) = 3
    /\ feed.USGS_4_5_DAY[1].magnitude = 65
    /\ feed.USGS_4_5_DAY[2].magnitude = 75
    /\ feed.USGS_4_5_DAY[3].magnitude = 80
    /\ Len(outcome.ret) = 3
    /\ outcome.ret[1].severity = "critical" /\ outcome.ret[1].distance_km = 4000
    /\ outcome.ret[2].severity = "critical" /\ outcome.ret[2].distance_km = 2000
    /\ outcome.ret[3].severity = "warning" /\ outcome.ret[3].distance_km = 500

\* With max_distance_km = 100, a flagged event 200 km away is left out.
C17_WitnessOutOfRange ==
    /\ TsunamisReturned
    /\ args.max_distance_km = Km(100)
    /\ Len(feed.USGS_4_5_DAY) = 2
    /\ \A i \in 1..2 : feed.USGS_4_5_DAY[i].tsunami = 1
    /\ Len(outcome.ret) = 1

(***************************************************************************)
(* C18.  The earthquake alert list get_earthquakes_near_location returns   *)
(* is ordered by ascending distance from the user (closest first): of two  *)
(* consecutive alerts the earlier one's distance is at most the later      *)
(* one's.                                                                  *)
(***************************************************************************)
C18_EarthquakeOrder ==
    EarthquakesReturned =>
        \A j \in 1..(Len(outcome.ret) - 1) :
            outcome.ret[j].distance_km <= outcome.ret[j + 1].distance_km

\* Three events served as 400 km, 10 km, 200 km away come back as 10, 200, 400 km.
C18_Witness ==
    /\ EarthquakesReturned
    /\ Len(Fetched) = 3
    /\ DistanceTo(Fetched[1]) = Km(400)
    /\ DistanceTo(Fetched[2]) = Km(10)
    /\ DistanceTo(Fetched[3]) = Km(200)
    /\ Len(outcome.ret) = 3
    /\ outcome.ret[1].distance_km = 100
    /\ outcome.ret[2].distance_km = 2000
    /\ outcome.ret[3].distance_km = 4000

(***************************************************************************)
(* backend/app/api/alerts.py: the alert endpoints and the in-memory alert  *)
(* history.  An alert of the history is the engine's Alert with its id;    *)
(* the ids the detectors draw from uuid4 are taken to be distinct and are  *)
(* numbered in the order they are issued.                                  *)
(***************************************************************************)
\* "Keep only last 100 alerts".
history_limit == 100

\* The check endpoint is served while fewer than this many ids have been issued.
MaxIssued == 3

\* The faulty variant: the cut keeps the first history_limit alerts.
store_alerts_keeping_oldest(history, alerts) ==
    LET extended == history \o alerts
    IN  IF Len(extended) > history_limit
        THEN SubSeq(extended, 1, history_limit)
        ELSE extended

\* alert_history.extend(alerts), then the cut to the last history_limit alerts.
store_alerts(history, alerts) ==
    LET extended == history \o alerts
    IN  IF Len(extended) > history_limit
        THEN SubSeq(extended, Len(extended) - history_limit + 1, Len(extended))
        ELSE extended

\* alert_history[-limit:][::-1]
get_alert_history(history, limit) ==
    Reversed(SubSeq(history, Max2(1, Len(history) - limit + 1), Len(history)))

\* The faulty variant: dismissing flips the flag instead of setting it.
dismiss_alert_toggle(history, alert_id) ==
    LET matching == {j \in DOMAIN history : history[j].id = alert_id}
    IN  IF matching = {}
        THEN [exc |-> "HTTP 404", history |-> history]
        ELSE LET first == MinOf(matching)
             IN  [exc |-> "",
                  history |-> [history EXCEPT ![first].acknowledged = ~@]]

\* The faulty variant: every alert with the id is acknowledged.
dismiss_alert_every_match(history, alert_id) ==
    LET matching == {j \in DOMAIN history : history[j].id = alert_id}
    IN  IF matching = {}
        THEN [exc |-> "HTTP 404", history |-> history]
        ELSE [exc |-> "",
              history |-> [j \in DOMAIN history |->
                              IF j \in matching
                              THEN [history[j] EXCEPT !.acknowledged = TRUE]
                              ELSE history[j]]]

\* dismiss_alert: the first alert of the history with the id is acknowledged; 404
\* when there is none.
dismiss_alert(history, alert_id) ==
    LET matching == {j \in DOMAIN history : history[j].id = alert_id}
    IN  IF matching = {}
        THEN [exc |-> "HTTP 404", history |-> history]
        ELSE [exc |-> "",
              history |-> [history EXCEPT ![MinOf(matching)].acknowledged = TRUE]]

\* What the weather service hands to the check endpoint: calm weather, a gale, a hot
\* and windy afternoon, and an empty forecast (on which the engine raises).
WeatherChoices ==
    {Args(MakeForecast(12, 1, <<20>>, <<0>>, <<10>>), 20, 50, 0, "FARMER", <<>>),
     Args(MakeForecast(12, 1, <<20>>, <<0>>, <<10>>), 20, 50, 120, "FARMER", <<>>),
     Args(MakeForecast(12, 1, <<43, 43, 43>>, <<0, 0, 0>>, <<110, 10, 10>>), 30, 50, 0,
          "STUDENT", <<>>),
     Args(<<>>, 20, 50, 0, "GENERAL", <<>>)}

\* An alert of the history: the engine's alert under the id issued for it.
Identified(alert, id) == [id |-> id] @@ alert

\* A history one short of full, left by earlier requests: gale alerts, the oldest
\* of them dismissed.
EarlierHistory ==
    [i \in 1..(history_limit - 1) |->
        [Identified(Alert("STORM", "HIGH", BaseRecommendations["STORM"], 7, None), 1000 + i)
            EXCEPT !.acknowledged = (i = 1)]]

\* A short history in which the 8 hexadecimal digits of two ids coincide.
CollidingHistory ==
    <<Identified(Alert("STORM", "HIGH", BaseRecommendations["STORM"], 7, None), 2001),
      Identified(Alert("HIGH_HUMIDITY", "MODERATE", BaseRecommendations["HIGH_HUMIDITY"],
                       7, None), 2002),
      Identified(Alert("COLD_WAVE", "SEVERE", BaseRecommendations["COLD_WAVE"], 8, 11), 2001)>>

HistoryInit ==
    /\ op = "none"
    /\ pc = "serving"
    /\ args = <<>>
    /\ now = 12
    /\ outcome = [exc |-> "", ret |-> <<>>]
    /\ risk_score = 0
    /\ snapshot = CalmSnapshot
    /\ feed = NoEvents
    /\ invocations = <<>>
    /\ heap = <<>>
    /\ _cache = <<>>
    /\ cache_log = <<>>
    /\ notification_service = NoNotifications
    /\ uuids = 0
    /\ alert_history \in {<<>>, EarlierHistory, CollidingHistory}

\* POST /api/alerts/check
CheckAlertsRequest ==
    /\ uuids < MaxIssued
    /\ \E weather \in WeatherChoices :
          LET result == check_alerts(weather.hourly_forecast, weather.current_temp,
                                     weather.current_humidity, weather.current_wind,
                                     weather.user_type, weather.custom_thresholds, now)
              alerts == [i \in DOMAIN result.ret |-> Identified(result.ret[i], uuids + i)]
          IN  /\ args' = weather
              /\ IF result.exc # ""
                 THEN /\ outcome' = [exc |-> "HTTP 500", ret |-> <<>>]
                      /\ UNCHANGED <<alert_history, uuids>>
                 ELSE /\ alert_history' = store_alerts(alert_history, alerts)
                      /\ uuids' = uuids + Len(alerts)
                      /\ outcome' = [exc |-> "", ret |-> alerts]
    /\ op' = "check_alerts"
    /\ UNCHANGED <<pc, now, snapshot, risk_score, feed, invocations, heap>>
    /\ UNCHANGED <<_cache, cache_log, notification_service>>

\* GET /api/alerts/history?limit=...
GetAlertHistory ==
    /\ \E limit \in {1, 20, 100} :
          /\ args' = [limit |-> limit]
          /\ outcome' = [exc |-> "", ret |-> get_alert_history(alert_history, limit)]
    /\ op' = "get_alert_history"
    /\ UNCHANGED <<pc, now, snapshot, risk_score, feed, invocations, heap>>
    /\ UNCHANGED <<_cache, cache_log, notification_service>>
    /\ UNCHANGED <<alert_history, uuids>>

\* The ids a dismissal is tried with: of the oldest and the two newest alerts of
\* the history, and one no alert has.
DismissChoices ==
    {0} \cup {alert_history[j].id :
                 j \in {k \in DOMAIN alert_history : k = 1 \/ k > Len(alert_history) - 2}}

\* POST /api/alerts/dismiss/{alert_id}
DismissAlert ==
    /\ \E alert_id \in DismissChoices :
          /\ args' = [alert_id |-> alert_id]
          /\ alert_history' = dismiss_alert(alert_history, alert_id).history
          /\ outcome' = [exc |-> dismiss_alert(alert_history, alert_id).exc, ret |-> <<>>]
    /\ op' = "dismiss_alert"
    /\ UNCHANGED <<pc, now, snapshot, risk_score, feed, invocations, heap, uuids>>
    /\ UNCHANGED <<_cache, cache_log, notification_service>>

HistoryNext == CheckAlertsRequest \/ GetAlertHistory \/ DismissAlert

HistorySpec == HistoryInit /\ [][HistoryNext]_vars

\* The ids of the alerts of a history.
IdsOf(history) == {history[j].id : j \in DOMAIN history}

\* The alert of a history that has a given id.
AlertOf(history, id) == history[CHOOSE j \in DOMAIN history : history[j].id = id]

\* The ids of the alerts of a history whose acknowledged flag is set.
AcknowledgedIn(history) ==
    {history[j].id : j \in {k \in DOMAIN history : history[k].acknowledged}}

(***************************************************************************)
(* C19.  Over any sequence of check, history and dismiss requests, every   *)
(* alert enters the history with acknowledged = false, the flag changes    *)
(* only through dismiss_alert, and once an alert's acknowledged flag is    *)
(* true it is never false again while the alert remains in the history.    *)
(***************************************************************************)
C19_AcknowledgedOnce ==
    [][/\ (IdsOf(alert_history') \ IdsOf(alert_history)) \cap AcknowledgedIn(alert_history') = {}
       /\ AcknowledgedIn(alert_history) \cap IdsOf(alert_history') \subseteq
              AcknowledgedIn(alert_history')
       /\ AcknowledgedIn(alert_history') \cap IdsOf(alert_history) #
              AcknowledgedIn(alert_history) \cap IdsOf(alert_history') => op' = "dismiss_alert"]_vars

\* An alert issued in this run has been dismissed, and a later check, which pushed
\* the oldest alert out of the full history, has left it acknowledged.
C19_Witness ==
    /\ op = "check_alerts"
    /\ outcome.exc = ""
    /\ Len(alert_history) = history_limit
    /\ 1001 \notin IdsOf(alert_history)
    /\ 1 \in IdsOf(alert_history)
    /\ AlertOf(alert_history, 1).acknowledged
    /\ ~alert_history[Len(alert_history)].acknowledged

(***************************************************************************)
(* Two calls of AlertEngine.check_alerts on the one engine of              *)
(* api/alerts.py, running at the same time.  Every object a call creates   *)
(* lives on the heap: an Alert, whose field recommendations is the address *)
(* of a list, and that list.  A heap object records the call that created  *)
(* it (owner) and the calls that have read or changed it (users).  A call  *)
(* takes one step to run the detectors, one step per alert to personalize  *)
(* it, and one step to sort and return.                                    *)
(***************************************************************************)
Callers == {1, 2}

\* The detectors of check_alerts, in their order: the alerts before they are
\* personalized, or the exception a detector raised.
detect_alerts(hourly_forecast, current_temp, current_humidity, current_wind, custom_thresholds, clock) ==
    LET thresholds ==
            IF custom_thresholds # <<>> THEN custom_thresholds[1] ELSE CustomThresholds
        heavy_rain == _check_heavy_rain(hourly_forecast, thresholds.heavy_rain_amount)
    IN  [exc |-> heavy_rain.exc,
         ret |-> IF heavy_rain.exc # "" THEN <<>>
                 ELSE _check_heatwave(hourly_forecast, thresholds.heatwave_temp)
                      \o heavy_rain.ret
                      \o _check_storm(hourly_forecast, current_wind,
                                      thresholds.high_wind_speed, clock)
                      \o _check_cold_wave(hourly_forecast, thresholds.cold_wave_temp)
                      \o _check_high_humidity(current_temp, current_humidity,
                                              thresholds.high_humidity, clock)]

\* The lists on the heap that begin with the given items.
ListsStarting(objects, items) ==
    {a \in DOMAIN objects :
        /\ objects[a].kind = "list"
        /\ Len(objects[a].value) >= Len(items)
        /\ SubSeq(objects[a].value, 1, Len(items)) = items}

\* The faulty variant: the recommendations of an alert type are one list kept for
\* the whole process, which every Alert of that type refers to.
allocate_shared(objects, detected, caller) ==
    LET base == Len(objects)
        Shared(k) == ListsStarting(objects, detected[k].recommendations)
        new == [n \in 1..(2 * Len(detected)) |->
                   IF n % 2 = 1
                   THEN [kind |-> "list", value |-> detected[(n + 1) \div 2].recommendations,
                         owner |-> caller, users |-> {}]
                   ELSE [kind |-> "Alert",
                         value |-> [detected[n \div 2] EXCEPT !.recommendations =
                                       IF Shared(n \div 2) # {} THEN MinOf(Shared(n \div 2))
                                       ELSE base + n - 1],
                         owner |-> caller, users |-> {}]]
    IN  [heap |-> objects \o new,
         alerts |-> [k \in DOMAIN detected |-> base + 2 * k]]

\* Alert(..., recommendations=[...]): each detected alert becomes a new Alert object
\* that refers to a new list.
allocate(objects, detected, caller) ==
    LET base == Len(objects)
        new == [n \in 1..(2 * Len(detected)) |->
                   IF n % 2 = 1
                   THEN [kind |-> "list", value |-> detected[(n + 1) \div 2].recommendations,
                         owner |-> caller, users |-> {}]
                   ELSE [kind |-> "Alert",
                         value |-> [detected[n \div 2] EXCEPT !.recommendations = base + n - 1],
                         owner |-> caller, users |-> {}]]
    IN  [heap |-> objects \o new,
         alerts |-> [k \in DOMAIN detected |-> base + 2 * k]]

\* The heap after a caller has read or changed the objects at the addresses.
Used(objects, addresses, caller) ==
    [a \in DOMAIN objects |->
        IF a \in addresses THEN [objects[a] EXCEPT !.users = @ \cup {caller}]
        ELSE objects[a]]

\* What two simultaneous requests pass to the engine: the weather of the check
\* endpoint, and a gale for a user type that is none of the enumeration.
CallChoices ==
    WeatherChoices
    \cup {Args(MakeForecast(12, 1, <<20>>, <<0>>, <<10>>), 20, 50, 120, "PILOT", <<>>)}

ConcurrentInit ==
    /\ op = "check_alerts"
    /\ pc = "running"
    /\ args = <<>>
    /\ now = 12
    /\ outcome = [exc |-> "", ret |-> <<>>]
    /\ risk_score = 0
    /\ snapshot = CalmSnapshot
    /\ feed = NoEvents
    /\ alert_history = <<>>
    /\ uuids = 0
    /\ heap = <<>>
    /\ _cache = <<>>
    /\ cache_log = <<>>
    /\ notification_service = NoNotifications
    /\ \E first \in CallChoices, second \in CallChoices :
          invocations =
              [c \in Callers |->
                  [pc |-> "start", args |-> IF c = 1 THEN first ELSE second,
                   alerts |-> <<>>, cursor |-> 1, outcome |-> [exc |-> "", ret |-> <<>>]]]

\* check_alerts, lines 48-71: the detectors create the alerts.
Detect(c) ==
    LET self == invocations[c]
        detected == detect_alerts(self.args.hourly_forecast, self.args.current_temp,
                                  self.args.current_humidity, self.args.current_wind,
                                  self.args.custom_thresholds, now)
        allocated == allocate(heap, detected.ret, c)
    IN  /\ self.pc = "start"
        /\ IF detected.exc # ""
           THEN /\ invocations' =
                       [invocations EXCEPT ![c].pc = "done",
                                           ![c].outcome = [exc |-> detected.exc, ret |-> <<>>]]
                /\ UNCHANGED heap
           ELSE /\ invocations' =
                       [invocations EXCEPT ![c].pc = "personalize",
                                           ![c].alerts = allocated.alerts]
                /\ heap' = allocated.heap
        /\ UNCHANGED <<op, pc, args, now, outcome, snapshot, risk_score, feed>>
        /\ UNCHANGED <<alert_history, uuids, _cache, cache_log, notification_service>>

\* _personalize_alerts: UserType(user_type) raising ends the loop before it starts;
\* otherwise one turn of the loop extends the list of the alert under the cursor.
Personalize(c) ==
    LET self == invocations[c]
        user_type == self.args.user_type
    IN  /\ self.pc = "personalize"
        /\ IF user_type \notin UserType \/ self.cursor > Len(self.alerts)
           THEN /\ invocations' = [invocations EXCEPT ![c].pc = "prioritize"]
                /\ UNCHANGED heap
           ELSE LET address == self.alerts[self.cursor]
                    alert == heap[address].value
                IN  /\ invocations' = [invocations EXCEPT ![c].cursor = @ + 1]
                    /\ IF alert.type \in DOMAIN user_recommendations[user_type]
                       THEN heap' =
                                Used([heap EXCEPT ![alert.recommendations].value =
                                         @ \o user_recommendations[user_type][alert.type]],
                                     {address, alert.recommendations}, c)
                       ELSE heap' = Used(heap, {address}, c)
        /\ UNCHANGED <<op, pc, args, now, outcome, snapshot, risk_score, feed>>
        /\ UNCHANGED <<alert_history, uuids, _cache, cache_log, notification_service>>

\* _prioritize_alerts: the alerts sorted by their severity, and the return.
Prioritize(c) ==
    LET self == invocations[c]
        keyed == [k \in DOMAIN self.alerts |->
                     [severity |-> heap[self.alerts[k]].value.severity,
                      address |-> self.alerts[k]]]
        sorted == _prioritize_alerts(keyed)
    IN  /\ self.pc = "prioritize"
        /\ invocations' =
               [invocations EXCEPT ![c].pc = "done",
                                   ![c].outcome =
                                       [exc |-> "",
                                        ret |-> [k \in DOMAIN sorted |-> sorted[k].address]]]
        /\ heap' = Used(heap, {self.alerts[k] : k \in DOMAIN self.alerts}, c)
        /\ UNCHANGED <<op, pc, args, now, outcome, snapshot, risk_score, feed>>
        /\ UNCHANGED <<alert_history, uuids, _cache, cache_log, notification_service>>

ConcurrentNext == \E c \in Callers : Detect(c) \/ Personalize(c) \/ Prioritize(c)

ConcurrentSpec == ConcurrentInit /\ [][ConcurrentNext]_vars

\* The alert list a caller returned, every Alert and its list read from the heap.
ReturnedBy(c) ==
    [exc |-> invocations[c].outcome.exc,
     ret |-> [k \in DOMAIN invocations[c].outcome.ret |->
                 LET alert == heap[invocations[c].outcome.ret[k]].value
                 IN  [alert EXCEPT !.recommendations = heap[alert.recommendations].value]]]

\* What the call returns when it runs alone.
Alone(c) ==
    check_alerts(invocations[c].args.hourly_forecast, invocations[c].args.current_temp,
                 invocations[c].args.current_humidity, invocations[c].args.current_wind,
                 invocations[c].args.user_type, invocations[c].args.custom_thresholds, now)

(***************************************************************************)
(* C20.  Concurrent check_alerts invocations do not interfere: under any   *)
(* interleaving of two invocations each returns the alert list it returns  *)
(* when run alone, and no Alert object or recommendation list created by   *)
(* one invocation is read or changed by the other.                         *)
(***************************************************************************)
C20_NoInterference ==
    /\ \A c \in Callers : invocations[c].pc = "done" => ReturnedBy(c) = Alone(c)
    /\ \A a \in DOMAIN heap : heap[a].users \subseteq {heap[a].owner}

\* Both calls have returned a personalized gale alert, the second having created
\* its alert before the first personalized its own.
C20_Witness ==
    /\ \A c \in Callers :
          /\ invocations[c].pc = "done"
          /\ Len(invocations[c].outcome.ret) = 1
          /\ ReturnedBy(c).ret[1].type = "STORM"
          /\ Len(ReturnedBy(c).ret[1].recommendations) > Len(BaseRecommendations["STORM"])
    /\ invocations[1].outcome.ret = <<2>>
    /\ invocations[2].outcome.ret = <<4>>
    /\ heap[2].users = {1}
    /\ heap[3].users = {2}

(***************************************************************************)
(* The TTL cache of cache_service.py, one instance for the process, as     *)
(* the requests for the current weather use it.  The handlers are          *)
(* coroutines on one event loop and no method of the cache awaits, so a    *)
(* call of a method is one step; two requests interleave where             *)
(* get_current_weather awaits the provider, between its get and its set.   *)
(* Time is in seconds.                                                     *)
(***************************************************************************)
cache_ttl_current == 300

\* The longest log of set, invalidate and clear calls a behaviour builds.
MaxLogged == 2

\* The instants the clock takes: about the expiry of what was set at 0 and at 1.
Instants == {0, 1, 300, 301}

\* f"current_weather_city_{city}" and f"current_weather_{lat}_{lon}"
CacheKeys == {"current_weather_city_Pune", "current_weather_18.52_73.86"}

\* The faulty variant: what is stored is returned whatever its expiry.
cache_get_ignoring_expiry(entries, key, clock) ==
    IF key \notin DOMAIN entries THEN [entries |-> entries, ret |-> None]
    ELSE [entries |-> entries, ret |-> entries[key].value]

\* CacheService.get: the dict afterwards and the value returned.
cache_get(entries, key, clock) ==
    IF key \notin DOMAIN entries THEN [entries |-> entries, ret |-> None]
    ELSE IF clock > entries[key].expiry
         THEN [entries |-> [k \in DOMAIN entries \ {key} |-> entries[k]], ret |-> None]
         ELSE [entries |-> entries, ret |-> entries[key].value]

\* CacheService.set
cache_set(entries, key, value, ttl, clock) ==
    [k \in DOMAIN entries \cup {key} |->
        IF k = key THEN [value |-> value, expiry |-> clock + ttl] ELSE entries[k]]

\* CacheService.invalidate
cache_invalidate(entries, key) ==
    IF key \in DOMAIN entries THEN [k \in DOMAIN entries \ {key} |-> entries[k]]
    ELSE entries

\* CacheService.clear
cache_clear(entries) == <<>>

\* The normalized weather the provider serves to a caller at an instant; two
\* fetches differ in it.
Reading(c, clock) == clock * 10 + c

\* A request that is not running.
Idle == [pc |-> "idle", key |-> ""]

CacheInit ==
    /\ op = "none"
    /\ pc = "serving"
    /\ args = <<>>
    /\ now = 0
    /\ outcome = [exc |-> "", ret |-> None]
    /\ risk_score = 0
    /\ snapshot = CalmSnapshot
    /\ feed = NoEvents
    /\ alert_history = <<>>
    /\ uuids = 0
    /\ heap = <<>>
    /\ notification_service = NoNotifications
    /\ _cache = <<>>
    /\ cache_log = <<>>
    /\ invocations = [c \in Callers |-> Idle]

\* get_current_weather, lines 47-56: the key, cache.get, and the return on a hit.
CacheGet(c) ==
    /\ invocations[c].pc = "idle"
    /\ \E key \in CacheKeys :
          LET got == cache_get(_cache, key, now)
          IN  /\ _cache' = got.entries
              /\ outcome' = [exc |-> "", ret |-> got.ret]
              /\ args' = [key |-> key]
              /\ invocations' =
                     [invocations EXCEPT ![c] =
                         IF Truthy(got.ret) THEN Idle ELSE [pc |-> "fetching", key |-> key]]
    /\ op' = "cache.get"
    /\ UNCHANGED <<pc, now, snapshot, risk_score, feed, alert_history, uuids, heap>>
    /\ UNCHANGED <<cache_log, notification_service>>

\* get_current_weather, lines 67-96: the provider has answered; cache.set.
CacheSet(c) ==
    /\ invocations[c].pc = "fetching"
    /\ Len(cache_log) < MaxLogged
    /\ LET key == invocations[c].key
           value == Reading(c, now)
       IN  /\ _cache' = cache_set(_cache, key, value, cache_ttl_current, now)
           /\ cache_log' = Append(cache_log,
                                  [call |-> "set", key |-> key, value |-> value, at |-> now,
                                   ttl |-> cache_ttl_current])
           /\ args' = [key |-> key]
           /\ outcome' = [exc |-> "", ret |-> None]
    /\ invocations' = [invocations EXCEPT ![c] = Idle]
    /\ op' = "cache.set"
    /\ UNCHANGED <<pc, now, snapshot, risk_score, feed, alert_history, uuids, heap>>
    /\ UNCHANGED notification_service

\* get_current_weather, lines 83-88: the provider failed, the request raises.
FetchFails(c) ==
    /\ invocations[c].pc = "fetching"
    /\ invocations' = [invocations EXCEPT ![c] = Idle]
    /\ args' = [key |-> invocations[c].key]
    /\ outcome' = [exc |-> "HTTPStatusError", ret |-> None]
    /\ op' = "get_current_weather"
    /\ UNCHANGED <<pc, now, snapshot, risk_score, feed, alert_history, uuids, heap>>
    /\ UNCHANGED <<_cache, cache_log, notification_service>>

\* cache.invalidate(key)
CacheInvalidate ==
    /\ Len(cache_log) < MaxLogged
    /\ \E key \in CacheKeys :
          /\ _cache' = cache_invalidate(_cache, key)
          /\ cache_log' = Append(cache_log,
                                 [call |-> "invalidate", key |-> key, value |-> None,
                                  at |-> now, ttl |-> 0])
          /\ args' = [key |-> key]
    /\ outcome' = [exc |-> "", ret |-> None]
    /\ op' = "cache.invalidate"
    /\ UNCHANGED <<pc, now, snapshot, risk_score, feed, alert_history, uuids, heap>>
    /\ UNCHANGED <<invocations, notification_service>>

\* cache.clear()
CacheClear ==
    /\ Len(cache_log) < MaxLogged
    /\ _cache' = cache_clear(_cache)
    /\ cache_log' = Append(cache_log,
                           [call |-> "clear", key |-> "", value |-> None, at |-> now,
                            ttl |-> 0])
    /\ args' = <<>>
    /\ outcome' = [exc |-> "", ret |-> None]
    /\ op' = "cache.clear"
    /\ UNCHANGED <<pc, now, snapshot, risk_score, feed, alert_history, uuids, heap>>
    /\ UNCHANGED <<invocations, notification_service>>

\* datetime.now() moves on.
Tick ==
    /\ \E later \in {t \in Instants : t > now} : now' = later
    /\ op' = "none"
    /\ UNCHANGED <<pc, args, outcome, snapshot, risk_score, feed, alert_history, uuids, heap>>
    /\ UNCHANGED <<invocations, _cache, cache_log, notification_service>>

CacheNext ==
    \/ \E c \in Callers : CacheGet(c) \/ CacheSet(c) \/ FetchFails(c)
    \/ CacheInvalidate
    \/ CacheClear
    \/ Tick

CacheSpec == CacheInit /\ [][CacheNext]_vars

\* The positions in the log of the set calls for a key.
SetsOf(key) == {i \in DOMAIN cache_log : cache_log[i].call = "set" /\ cache_log[i].key = key}

\* An invalidate of the key, or a clear, was called after the call at a position.
RemovedSince(i, key) ==
    \E j \in DOMAIN cache_log :
        /\ j > i
        /\ \/ cache_log[j].call = "clear"
           \/ cache_log[j].call = "invalidate" /\ cache_log[j].key = key

(***************************************************************************)
(* C21.  Under any interleaving of get, set, invalidate and clear calls    *)
(* from simultaneous requests, cache.get returns None or the value of the  *)
(* most recent set for the key, whose expiry has not passed and after      *)
(* which the key was neither invalidated nor cleared.                      *)
(***************************************************************************)
C21_LastWriterWins ==
    op = "cache.get" =>
        \/ outcome.ret = None
        \/ /\ SetsOf(args.key) # {}
           /\ LET last == cache_log[MaxOf(SetsOf(args.key))]
              IN  /\ outcome.ret = last.value
                  /\ now <= last.at + last.ttl
                  /\ ~RemovedSince(MaxOf(SetsOf(args.key)), args.key)

\* A get returns what the second of two requests that both missed has set, at the
\* last instant before it expires.
C21_Witness ==
    /\ op = "cache.get"
    /\ Cardinality(SetsOf(args.key)) = 2
    /\ cache_log[MinOf(SetsOf(args.key))].value # outcome.ret
    /\ outcome.ret = cache_log[MaxOf(SetsOf(args.key))].value
    /\ now = cache_log[MaxOf(SetsOf(args.key))].at + cache_ttl_current
    /\ cache_log[MinOf(SetsOf(args.key))].at + cache_ttl_current < now

\* A get returns None for a key whose last set has expired.
C21_WitnessExpired ==
    /\ op = "cache.get"
    /\ outcome.ret = None
    /\ SetsOf(args.key) # {}
    /\ ~RemovedSince(MaxOf(SetsOf(args.key)), args.key)
    /\ now > cache_log[MaxOf(SetsOf(args.key))].at + cache_ttl_current

(***************************************************************************)
(* RiskCalculator.calculate_risk_score on two snapshots that differ in one *)
(* reading: snapshot, and snapshot with that reading raised.               *)
(***************************************************************************)
\* The readings on both sides of every breakpoint of the sub-scores.
RaisedReadings ==
    [precipitation |-> {0, 50, 99, 100, 101, 500},
     wind_speed |-> {0, 15, 29, 30, 31, 45, 59, 60, 61, 100, 101, 300},
     humidity |-> {0, 59, 60, 61, 80, 100}]

\* The snapshot with one reading replaced.
With(reading, input, value) == [reading EXCEPT ![input] = value]

RiskOrderInit ==
    /\ op = "calculate_risk_score"
    /\ pc = "start"
    /\ now = 7
    /\ outcome = [exc |-> "", ret |-> <<>>]
    /\ risk_score = 0
    /\ feed = NoEvents
    /\ NoRequests
    /\ \E temperature \in {0, 20, 24, 25, 26, 45}, visibility \in {0, 10},
          input \in DOMAIN RaisedReadings :
          \E lower \in RaisedReadings[input], higher \in RaisedReadings[input] :
             \E precipitation \in {0, 50, 100, 500}, wind_speed \in {0, 30, 60, 100},
                humidity \in {0, 60, 80, 100} :
                /\ lower < higher
                /\ snapshot = With([temperature |-> temperature,
                                    precipitation |-> precipitation,
                                    wind_speed |-> wind_speed, humidity |-> humidity,
                                    visibility |-> visibility], input, lower)
                /\ args = [input |-> input, higher |-> higher]

\* calculate_risk_score(...) for the snapshot and for the snapshot with the reading
\* raised.
CalculateRiskScores ==
    /\ pc = "start"
    /\ LET raised == With(snapshot, args.input, args.higher)
       IN  /\ risk_score' = calculate_risk_score(snapshot.temperature, snapshot.precipitation,
                                                 snapshot.wind_speed, snapshot.humidity,
                                                 snapshot.visibility)
           /\ outcome' = [exc |-> "",
                          ret |-> calculate_risk_score(raised.temperature, raised.precipitation,
                                                       raised.wind_speed, raised.humidity,
                                                       raised.visibility)]
    /\ pc' = "done"
    /\ UNCHANGED <<op, args, now, snapshot, feed>>
    /\ UNCHANGED <<alert_history, uuids, invocations, heap, _cache, cache_log, notification_service>>

RiskOrderNext == CalculateRiskScores

RiskOrderSpec == RiskOrderInit /\ [][RiskOrderNext]_vars

(***************************************************************************)
(* C22.  Holding the other four inputs fixed, calculate_risk_score is      *)
(* monotonically non-decreasing in precipitation, in wind speed (across    *)
(* the 30 km/h and 60 km/h boundaries too) and, when the temperature is    *)
(* above 25 degrees, in humidity.                                          *)
(***************************************************************************)
C22_RiskMonotonic ==
    pc = "done" /\ (args.input = "humidity" => snapshot.temperature > 25) =>
        risk_score <= outcome.ret

\* The wind rises across the 30 km/h boundary and the score rises with it.
C22_Witness ==
    /\ pc = "done"
    /\ args.input = "wind_speed"
    /\ snapshot.wind_speed = 29
    /\ args.higher = 30
    /\ risk_score < outcome.ret
    /\ outcome.ret < 120000

\* Above 25 degrees the humidity rises past 60 % and the score rises with it.
C22_WitnessHumidity ==
    /\ pc = "done"
    /\ args.input = "humidity"
    /\ snapshot.temperature > 25
    /\ snapshot.humidity = 60
    /\ risk_score < outcome.ret

(***************************************************************************)
(* The time windows and the severities of the alerts check_alerts returns. *)
(***************************************************************************)
\* The forecast is in the order of time.
Chronological ==
    \A i \in DOMAIN args.hourly_forecast, j \in DOMAIN args.hourly_forecast :
        i < j => args.hourly_forecast[i].timestamp <= args.hourly_forecast[j].timestamp

\* The window of an alert runs from the first to the last of the given forecast
\* points, in forecast order.
Spans(alert, points) ==
    /\ points # {}
    /\ alert.start_time = args.hourly_forecast[MinOf(points)].timestamp
    /\ alert.end_time = args.hourly_forecast[MaxOf(points)].timestamp

\* The timestamps of the first 24 forecast points.
ScannedTimes == {args.hourly_forecast[i].timestamp : i \in FirstPoints(24)}

(***************************************************************************)
(* C23.  Whenever a HEATWAVE or COLD_WAVE alert is produced, its           *)
(* start_time is the timestamp of the first qualifying forecast point and  *)
(* its end_time that of the last qualifying point in forecast order; for a *)
(* chronological forecast start_time <= end_time and both lie within the   *)
(* first 24 points.                                                        *)
(***************************************************************************)
C23_TemperatureWindow ==
    Returned =>
        \A k \in DOMAIN outcome.ret :
            LET alert == outcome.ret[k]
            IN  /\ alert.type = "HEATWAVE" => Spans(alert, HeatwavePoints)
                /\ alert.type = "COLD_WAVE" => Spans(alert, ColdPoints)
                /\ alert.type \in {"HEATWAVE", "COLD_WAVE"} /\ Chronological =>
                      /\ alert.start_time <= alert.end_time
                      /\ alert.start_time \in ScannedTimes
                      /\ alert.end_time \in ScannedTimes

\* A cold wave whose window opens after the first point and closes before the last
\* scanned one.
C23_Witness ==
    /\ Returned
    /\ Len(ReturnedOfType("COLD_WAVE")) = 1
    /\ Len(args.hourly_forecast) >= 24
    /\ MinOf(ColdPoints) > 1
    /\ MaxOf(ColdPoints) < 24
    /\ ReturnedOfType("COLD_WAVE")[1].start_time < ReturnedOfType("COLD_WAVE")[1].end_time
    /\ ReturnedOfType("COLD_WAVE")[1].start_time > args.hourly_forecast[1].timestamp

\* A heatwave whose hot points include night hours before and after the window:
\* the window spans the daytime ones only.
C23_WitnessHeatwave ==
    /\ Returned
    /\ Len(ReturnedOfType("HEATWAVE")) = 1
    /\ \E i \in FirstPoints(24) :
          /\ i > MaxOf(HeatwavePoints)
          /\ args.hourly_forecast[i].temperature > InForce.heatwave_temp
    /\ ReturnedOfType("HEATWAVE")[1].start_time < ReturnedOfType("HEATWAVE")[1].end_time
    /\ ReturnedOfType("HEATWAVE")[1].end_time = args.hourly_forecast[MaxOf(HeatwavePoints)].timestamp

\* The forecast points the heavy-rain window is taken over.
RainyPoints == {i \in FirstPoints(8) : args.hourly_forecast[i].precipitation > 0}

(***************************************************************************)
(* C24.  A HEAVY_RAIN alert's start_time and end_time are the timestamps   *)
(* of the first and the last of the first 8 forecast points with           *)
(* precipitation > 0, and are unset only when there is no such point; for  *)
(* non-negative precipitation values and a threshold >= 0 every HEAVY_RAIN *)
(* alert has both set.                                                     *)
(***************************************************************************)
C24_RainWindow ==
    Returned =>
        \A k \in DOMAIN outcome.ret :
            LET alert == outcome.ret[k]
            IN  alert.type = "HEAVY_RAIN" =>
                    /\ IF RainyPoints # {} THEN Spans(alert, RainyPoints)
                       ELSE alert.start_time = None /\ alert.end_time = None
                    /\ /\ \A i \in DOMAIN args.hourly_forecast :
                             args.hourly_forecast[i].precipitation >= 0
                       /\ InForce.heavy_rain_amount >= 0
                       => alert.start_time # None /\ alert.end_time # None

\* Rain in the middle of the first 8 points and at the ninth: the window is that of
\* the rainy points among the first 8.
C24_Witness ==
    /\ Returned
    /\ Len(ReturnedOfType("HEAVY_RAIN")) = 1
    /\ InForce.heavy_rain_amount >= 0
    /\ Len(args.hourly_forecast) > 8
    /\ args.hourly_forecast[9].precipitation > 0
    /\ MinOf(RainyPoints) > 1
    /\ MaxOf(RainyPoints) < 8
    /\ ReturnedOfType("HEAVY_RAIN")[1].start_time = args.hourly_forecast[MinOf(RainyPoints)].timestamp
    /\ ReturnedOfType("HEAVY_RAIN")[1].end_time = args.hourly_forecast[MaxOf(RainyPoints)].timestamp

\* A dry forecast under a threshold below zero: an alert with no window.
C24_WitnessUnset ==
    /\ Returned
    /\ Len(ReturnedOfType("HEAVY_RAIN")) = 1
    /\ InForce.heavy_rain_amount < 0
    /\ RainyPoints = {}
    /\ ReturnedOfType("HEAVY_RAIN")[1].start_time = None
    /\ ReturnedOfType("HEAVY_RAIN")[1].end_time = None

(***************************************************************************)
(* What fetch_earthquakes returns.                                         *)
(***************************************************************************)
\* fetch_earthquakes has run.
EarthquakesFetched == op = "fetch_earthquakes" /\ pc = "done"

(***************************************************************************)
(* C29.  Every alert returned by check_alerts has severity MODERATE, HIGH  *)
(* or SEVERE, never LOW, and a HIGH_HUMIDITY alert always has severity     *)
(* MODERATE.                                                               *)
(***************************************************************************)
C29_SeverityAssigned ==
    Returned =>
        \A k \in DOMAIN outcome.ret :
            /\ outcome.ret[k].severity \in {"MODERATE", "HIGH", "SEVERE"}
            /\ outcome.ret[k].severity # "LOW"
            /\ outcome.ret[k].type = "HIGH_HUMIDITY" =>
                  outcome.ret[k].severity = "MODERATE"

\* A humidity alert returned for a humidity well above the threshold in force,
\* beside an alert of another type graded above MODERATE.
C29_Witness ==
    /\ Returned
    /\ Len(ReturnedOfType("HIGH_HUMIDITY")) = 1
    /\ ReturnedOfType("HIGH_HUMIDITY")[1].severity = "MODERATE"
    /\ args.current_humidity > InForce.high_humidity + 10
    /\ \E k \in DOMAIN outcome.ret : outcome.ret[k].severity \in {"HIGH", "SEVERE"}

\* Each of the three grades is returned by some call.
C29_WitnessAllGrades ==
    /\ Returned
    /\ {outcome.ret[k].severity : k \in DOMAIN outcome.ret} =
          {"MODERATE", "HIGH", "SEVERE"}

(***************************************************************************)
(* C25.  Every event returned by fetch_earthquakes has magnitude >= 4.0,   *)
(* event type "earthquake", and an occurrence time no more than 24 hours   *)
(* before the fetch.                                                       *)
(***************************************************************************)
C25_FetchedRelevant ==
    EarthquakesFetched =>
        \A k \in DOMAIN outcome.ret :
            /\ outcome.ret[k].magnitude >= self_min_magnitude
            /\ outcome.ret[k].type = "earthquake"
            /\ now - outcome.ret[k].time <= self_max_age_hours

\* What the filter does ensure: the magnitude, the type whatever its case, and the
\* age of the events whose time the test `if event_time_ms:` lets through.
C25_FetchedRelevantWhenDated ==
    EarthquakesFetched =>
        \A k \in DOMAIN outcome.ret :
            /\ outcome.ret[k].magnitude >= self_min_magnitude
            /\ Lower(outcome.ret[k].type) = "earthquake"
            /\ Truthy(outcome.ret[k].time) => now - outcome.ret[k].time <= self_max_age_hours

\* An earthquake stamped 0 is returned, though it is more than 24 hours old.
C25_UndatedKept ==
    /\ EarthquakesFetched
    /\ \E k \in DOMAIN outcome.ret :
          /\ outcome.ret[k].time = 0
          /\ outcome.ret[k].type = "earthquake"
          /\ now - outcome.ret[k].time > self_max_age_hours

(***************************************************************************)
(* The contents of the alert history.                                      *)
(***************************************************************************)
\* The last n elements of a sequence, or all of it if it is shorter.
Newest(seq, n) ==
    [j \in 1..Min2(n, Len(seq)) |-> seq[Len(seq) - Min2(n, Len(seq)) + j]]

\* The ids of a history, in its order.
IdSequence(history) == [j \in DOMAIN history |-> history[j].id]

(***************************************************************************)
(* C26.  After any sequence of check requests the alert history holds at   *)
(* most 100 alerts, the most recently generated ones in generation order;  *)
(* a history request with limit n returns the min(n, size) most recent of  *)
(* them, newest first.                                                     *)
(***************************************************************************)
C26_HistoryNewest ==
    [][/\ Len(alert_history') <= 100
       /\ IF op' = "check_alerts" /\ outcome'.exc = ""
          THEN alert_history' = Newest(alert_history \o outcome'.ret, 100)
          ELSE IdSequence(alert_history') = IdSequence(alert_history)
       /\ op' = "get_alert_history" =>
             /\ Len(outcome'.ret) = Min2(args'.limit, Len(alert_history))
             /\ \A j \in DOMAIN outcome'.ret :
                   outcome'.ret[j] = alert_history[Len(alert_history) - j + 1]]_vars

\* The history is full and has lost its oldest alert; a request with limit 20 has
\* returned 20 alerts, the one generated last at their head.
C26_Witness ==
    /\ op = "get_alert_history"
    /\ args.limit = 20
    /\ Len(alert_history) = 100
    /\ alert_history[1].id = 1002
    /\ Len(outcome.ret) = 20
    /\ outcome.ret[1].id = uuids
    /\ outcome.ret[2].id = uuids - 1
    /\ outcome.ret[20] = alert_history[81]

\* The places of a history whose alert has a given id.
Matching(history, id) == {j \in DOMAIN history : history[j].id = id}

(***************************************************************************)
(* C27.  dismiss_alert with an id that matches no alert of the history     *)
(* fails with 404 and leaves every acknowledged flag and the history       *)
(* unchanged; with a matching id it sets acknowledged on exactly one       *)
(* alert, the first match, and changes no other alert and no other field.  *)
(***************************************************************************)
C27_DismissFrame ==
    [][op' = "dismiss_alert" =>
          IF Matching(alert_history, args'.alert_id) = {}
          THEN outcome'.exc = "HTTP 404" /\ alert_history' = alert_history
          ELSE LET first == MinOf(Matching(alert_history, args'.alert_id))
                   size == Len(alert_history)
               IN  /\ outcome'.exc = ""
                   /\ Len(alert_history') = size
                   /\ SubSeq(alert_history', 1, first - 1) = SubSeq(alert_history, 1, first - 1)
                   /\ SubSeq(alert_history', first + 1, size) =
                          SubSeq(alert_history, first + 1, size)
                   /\ alert_history'[first].acknowledged
                   /\ [alert_history'[first] EXCEPT !.acknowledged = FALSE] =
                          [alert_history[first] EXCEPT !.acknowledged = FALSE]]_vars

\* Of two alerts with the same id the first has been dismissed and the second has
\* not.
C27_Witness ==
    /\ op = "dismiss_alert"
    /\ outcome.exc = ""
    /\ Cardinality(Matching(alert_history, args.alert_id)) = 2
    /\ \A j \in Matching(alert_history, args.alert_id) :
          alert_history[j].acknowledged <=> j = 1

\* A dismissal of an id that no alert has: 404, on a history with alerts in it.
C27_WitnessNotFound ==
    /\ op = "dismiss_alert"
    /\ outcome.exc = "HTTP 404"
    /\ alert_history # <<>>
    /\ Matching(alert_history, args.alert_id) = {}

(***************************************************************************)
(* The NotificationService of notification_service.py, one instance for    *)
(* the process: send_disaster_alert and should_send_notification.  Alert   *)
(* ids are numbered.                                                       *)
(***************************************************************************)
\* The longest notification_history a behaviour builds.
MaxNotified == 3

\* dict.get(key)
Get(dict, key) == IF key \in DOMAIN dict THEN dict[key] ELSE None

\* The alert dicts the service is called with: a critical earthquake, a tsunami
\* warning, an informational earthquake, and a critical alert that carries no id.
AlertDicts ==
    {[id |-> 1, type |-> "earthquake", severity |-> "critical",
      title |-> "Magnitude 7.2 Earthquake", message |-> "Earthquake detected 40km from your location",
      user_message |-> "Drop, Cover, and Hold On"],
     [id |-> 2, type |-> "tsunami", severity |-> "warning",
      title |-> "Tsunami Alert", message |-> "Potential tsunami from M7.6 earthquake 300km away",
      user_message |-> "Move to higher ground"],
     [id |-> 3, type |-> "earthquake", severity |-> "info",
      title |-> "Magnitude 4.6 Earthquake", message |-> "Earthquake detected 900km from your location",
      user_message |-> "Drop, Cover, and Hold On"],
     [type |-> "earthquake", severity |-> "critical",
      title |-> "Magnitude 8.1 Earthquake", message |-> "Earthquake detected 120km from your location",
      user_message |-> "Drop, Cover, and Hold On"]}

\* _log_notification: the notification appended to the history.
_log_notification(history, alert, clock) ==
    Append(history,
           [timestamp |-> clock, type |-> Get(alert, "type"),
            severity |-> Get(alert, "severity"), title |-> Get(alert, "title"),
            message |-> Get(alert, "message")])

\* send_disaster_alert: the service afterwards and the possible results; what FCM
\* answers for each token is not the service's to decide.
send_disaster_alert(service, user_tokens, alert, clock) ==
    IF alert.severity \notin {"critical", "warning"}
    THEN [service |-> service, ret |-> {[sent |-> 0, failed |-> 0, skipped |-> 1]}]
    ELSE IF ~service.fcm_enabled
    THEN [service |-> [service EXCEPT !.notification_history =
                          _log_notification(@, alert, clock)],
          ret |-> {[sent |-> 0, failed |-> 0, fcm_disabled |-> TRUE]}]
    ELSE [service |-> service,
          ret |-> IF "id" \notin DOMAIN alert /\ user_tokens # <<>>
                  THEN \* alert["id"] raises KeyError, which the method catches
                       {[sent |-> 0, failed |-> Len(user_tokens), error |-> "KeyError"]}
                  ELSE {[sent |-> sent, failed |-> Len(user_tokens) - sent] :
                           sent \in 0..Len(user_tokens)}
                       \* messaging.send_each may raise; the method catches it
                       \cup (IF user_tokens = <<>> THEN {}
                             ELSE {[sent |-> 0, failed |-> Len(user_tokens),
                                    error |-> "send_each"]})]

\* should_send_notification
should_send_notification(service, alert) ==
    IF alert.severity \notin {"critical", "warning"} THEN FALSE
    ELSE LET history == service.notification_history
             recent == SubSeq(history, Max2(1, Len(history) - 9), Len(history))
             recent_ids == {Get(recent[j], "alert_id") : j \in DOMAIN recent}
         IN  Get(alert, "id") \notin recent_ids

NotificationInit ==
    /\ op = "none"
    /\ pc = "serving"
    /\ args = <<>>
    /\ now = 12
    /\ outcome = [exc |-> "", ret |-> FALSE]
    /\ risk_score = 0
    /\ snapshot = CalmSnapshot
    /\ feed = NoEvents
    /\ alert_history = <<>>
    /\ uuids = 0
    /\ invocations = <<>>
    /\ heap = <<>>
    /\ _cache = <<>>
    /\ cache_log = <<>>
    /\ \E fcm_enabled \in BOOLEAN :
          notification_service = [NoNotifications EXCEPT !.fcm_enabled = fcm_enabled]

\* await notification_service.send_disaster_alert(user_tokens, alert)
SendDisasterAlert ==
    /\ Len(notification_service.notification_history) < MaxNotified
    /\ \E alert \in AlertDicts, user_tokens \in {<<>>, <<"token_a">>, <<"token_a", "token_b">>} :
          LET sent == send_disaster_alert(notification_service, user_tokens, alert, now)
          IN  /\ notification_service' = sent.service
              /\ \E ret \in sent.ret : outcome' = [exc |-> "", ret |-> ret]
              /\ args' = [alert |-> alert, user_tokens |-> user_tokens]
    /\ op' = "send_disaster_alert"
    /\ UNCHANGED <<pc, now, snapshot, risk_score, feed, alert_history, uuids>>
    /\ UNCHANGED <<invocations, heap, _cache, cache_log>>

\* notification_service.should_send_notification(alert)
ShouldSendNotification ==
    /\ \E alert \in AlertDicts :
          /\ outcome' = [exc |-> "",
                         ret |-> should_send_notification(notification_service, alert)]
          /\ args' = [alert |-> alert]
    /\ op' = "should_send_notification"
    /\ UNCHANGED <<pc, now, snapshot, risk_score, feed, alert_history, uuids>>
    /\ UNCHANGED <<invocations, heap, _cache, cache_log, notification_service>>

NotificationNext == SendDisasterAlert \/ ShouldSendNotification

NotificationSpec == NotificationInit /\ [][NotificationNext]_vars

\* The alert a recorded notification was logged for: the alert dicts differ in
\* their titles.
LoggedFor(notification) == CHOOSE alert \in AlertDicts : alert.title = notification.title

\* The alerts of the last 10 notifications recorded in notification_history.
RecentlyNotified ==
    LET history == notification_service.notification_history
    IN  {LoggedFor(history[j]) : j \in {k \in DOMAIN history : k > Len(history) - 10}}

\* should_send_notification has answered.
Answered == op = "should_send_notification"

(***************************************************************************)
(* C28.  should_send_notification returns false for an alert whose id      *)
(* equals the id of one of the last 10 notifications recorded in           *)
(* notification_history, returns false for any alert whose severity is not *)
(* critical or warning, and returns true for a critical or warning alert   *)
(* that was not recently notified.                                         *)
(***************************************************************************)
C28_ShouldSend ==
    Answered =>
        /\ /\ "id" \in DOMAIN args.alert
           /\ \E notified \in RecentlyNotified :
                 "id" \in DOMAIN notified /\ notified.id = args.alert.id
           => outcome.ret = FALSE
        /\ args.alert.severity \notin {"critical", "warning"} => outcome.ret = FALSE
        /\ /\ args.alert.severity \in {"critical", "warning"}
           /\ args.alert \notin RecentlyNotified
           => outcome.ret = TRUE

\* What the method does ensure: the severity test, and true for every critical or
\* warning alert that carries an id, notified or not.
C28_ShouldSendBySeverity ==
    Answered =>
        /\ args.alert.severity \notin {"critical", "warning"} => outcome.ret = FALSE
        /\ args.alert.severity \in {"critical", "warning"} /\ "id" \in DOMAIN args.alert =>
              outcome.ret = TRUE

\* The critical earthquake is the last notification recorded, and the method still
\* answers true for it.
C28_DuplicateSent ==
    /\ Answered
    /\ args.alert.severity = "critical"
    /\ "id" \in DOMAIN args.alert
    /\ notification_service.notification_history # <<>>
    /\ args.alert \in RecentlyNotified
    /\ outcome.ret = TRUE

(***************************************************************************)
(* The seismic severity classifiers on two events, the second as strong    *)
(* and as near as the first, and differing from it in magnitude or in      *)
(* distance only.                                                          *)
(***************************************************************************)
SeverityOrderInit ==
    /\ op \in {"get_severity", "calculate_tsunami_severity"}
    /\ pc = "start"
    /\ now = 100
    /\ outcome = [exc |-> "", ret |-> <<>>]
    /\ risk_score = 0
    /\ snapshot = CalmSnapshot
    /\ feed = NoEvents
    /\ NoRequests
    /\ \E magnitude \in Magnitudes, distance_km \in Distances,
          stronger \in Magnitudes, nearer \in Distances :
          /\ magnitude <= stronger
          /\ nearer <= distance_km
          /\ magnitude = stronger \/ nearer = distance_km
          /\ args = [magnitude |-> magnitude, distance_km |-> distance_km,
                     stronger |-> stronger, nearer |-> nearer,
                     is_coastal |-> is_coastal_location(0, 0)]

\* get_severity(magnitude, distance_km) for the first event and for the second.
GetSeverities ==
    /\ pc = "start"
    /\ op = "get_severity"
    /\ outcome' = [exc |-> "",
                   ret |-> <<get_severity(args.magnitude, args.distance_km),
                             get_severity(args.stronger, args.nearer)>>]
    /\ pc' = "done"
    /\ UNCHANGED <<op, args, now, snapshot, risk_score, feed>>
    /\ UNCHANGED <<alert_history, uuids, invocations, heap, _cache, cache_log, notification_service>>

\* calculate_tsunami_severity(magnitude, distance_km, is_coastal) for the first
\* event and for the second.
CalculateTsunamiSeverities ==
    /\ pc = "start"
    /\ op = "calculate_tsunami_severity"
    /\ outcome' = [exc |-> "",
                   ret |-> <<calculate_tsunami_severity(args.magnitude, args.distance_km,
                                                         args.is_coastal),
                             calculate_tsunami_severity(args.stronger, args.nearer,
                                                         args.is_coastal)>>]
    /\ pc' = "done"
    /\ UNCHANGED <<op, args, now, snapshot, risk_score, feed>>
    /\ UNCHANGED <<alert_history, uuids, invocations, heap, _cache, cache_log, notification_service>>

SeverityOrderNext == GetSeverities \/ CalculateTsunamiSeverities

SeverityOrderSpec == SeverityOrderInit /\ [][SeverityOrderNext]_vars

(***************************************************************************)
(* C30.  Both seismic severity classifiers (get_severity, and              *)
(* calculate_tsunami_severity for a coastal location) are monotonic under  *)
(* the ranking info < warning < critical: for a fixed magnitude a smaller  *)
(* distance never yields a lower severity, and for a fixed distance a      *)
(* larger magnitude never yields a lower severity.                         *)
(***************************************************************************)
C30_SeverityMonotonic ==
    pc = "done" /\ args.is_coastal =>
        /\ args.magnitude = args.stronger /\ args.nearer < args.distance_km =>
              SeismicRank(outcome.ret[1]) <= SeismicRank(outcome.ret[2])
        /\ args.distance_km = args.nearer /\ args.magnitude < args.stronger =>
              SeismicRank(outcome.ret[1]) <= SeismicRank(outcome.ret[2])

\* One earthquake magnitude graded info far away and critical close by.
C30_Witness ==
    /\ pc = "done"
    /\ op = "get_severity"
    /\ args.magnitude = args.stronger
    /\ args.nearer < args.distance_km
    /\ outcome.ret = <<"info", "critical">>

\* At one distance from a coastal location, the tsunami severity rises from info
\* to critical with the magnitude.
C30_WitnessTsunami ==
    /\ pc = "done"
    /\ op = "calculate_tsunami_severity"
    /\ args.is_coastal
    /\ args.distance_km = args.nearer
    /\ args.magnitude < args.stronger
    /\ outcome.ret = <<"info", "critical">>

\* Beyond the radius of one magnitude class and within that of the next, the
\* earthquake severity rises from info to warning by the impact radius alone.
C30_WitnessRadius ==
    /\ pc = "done"
    /\ op = "get_severity"
    /\ args.distance_km = args.nearer
    /\ args.magnitude = 79
    /\ args.stronger = 80
    /\ args.distance_km >= get_impact_radius(79)
    /\ outcome.ret = <<"info", "warning">>

====
